---- MODULE Spec2Model ----
(***************************************************************************)
(* Model of the brainrot-app processing pipeline for ONE project id.       *)
(*                                                                         *)
(* The program is a Next.js server: one Node.js process, one JavaScript    *)
(* thread.  Every metadata.json / segments.json access in the source uses  *)
(* the synchronous fs calls (existsSync, readFileSync, writeFileSync), so  *)
(* each stretch of code between two awaits / event callbacks runs to       *)
(* completion without interleaving.  One action of this model is one such  *)
(* stretch: a request handler up to its response, or one callback of a     *)
(* spawned tool (a data chunk, the close event) together with the promise  *)
(* continuation it releases.                                               *)
(***************************************************************************)
EXTENDS Integers, Sequences, FiniteSets, TLC

VARIABLES
    dirExists,   \* projects/<id>/ exists
    meta,        \* projects/<id>/metadata.json (meta.exists = FALSE: no file)
    files,       \* artifacts: source/video.mp4, source/audio.mp3, merge/processed.mp4, segments/
    segs,        \* projects/<id>/segments.json (segs.exists = FALSE: no file)
    dls,         \* downloadMedia invocations, by process id
    mgs,         \* mergeMedia invocations, by process id
    sps,         \* splitMedia invocations, by process id
    caps,        \* captionSegment invocations, by process id
    dss,         \* DELETE segments requests in flight, by request number
    nextPid,     \* next fresh uuidv4() process id
    resp,        \* the response of the last request handled
    lastProg,    \* history: last value written per progress key since the record was written anew
    lastStatus   \* history: last status written since the record was written anew

vars == <<dirExists, meta, files, segs, dls, mgs, sps, caps, dss, nextPid, resp, lastProg, lastStatus>>

(***************************************************************************)
(* Bounds                                                                  *)
(***************************************************************************)
MaxDownloads == 1  \* accepted download starts per behaviour
MaxMerges == 1     \* accepted merge starts per behaviour
MaxSplits == 1     \* accepted split starts per behaviour
MaxCaptions == 2   \* accepted caption starts per behaviour
MaxDeletes == 1    \* delete-segments requests per behaviour
MaxExtra == 5      \* seconds by which the long clip exceeds one segment
MaxDuration == 130 \* longest merged clip given to the split stage, in seconds
MaxWords == 6      \* most timed words in one transcription
MaxOffset == 2     \* largest trim offset of a download request, in seconds
MaxRestarts == 2   \* accepted merge starts where the merge is started again and again

(***************************************************************************)
(* Values                                                                  *)
(***************************************************************************)
Null == "null"            \* an absent string field
NoPid == 0                \* an absent process id field
NoNum == -1               \* an absent numeric field
EmptyMap == [k \in {} |-> 0]

INITIALIZING == "initializing"
INITIALIZED == "initialized"
INITIALIZE_ERROR == "initialize_error"
MERGING == "merging"
MERGED == "merged"
MERGING_ERROR == "merging_error"
DOWNLOADING == "downloading"
DOWNLOADED == "downloaded"
DOWNLOAD_ERROR == "download_error"
SEGMENTING == "segmenting"
SEGMENTED == "segmented"
SEGMENTING_ERROR == "segmenting_error"
CAPTIONING == "captioning"
CAPTIONED == "captioned"
CAPTIONING_ERROR == "captioning_error"

ProjectStatus ==
    {INITIALIZING, INITIALIZED, INITIALIZE_ERROR, MERGING, MERGED, MERGING_ERROR,
     DOWNLOADING, DOWNLOADED, DOWNLOAD_ERROR, SEGMENTING, SEGMENTED, SEGMENTING_ERROR,
     CAPTIONING, CAPTIONED, CAPTIONING_ERROR}

InProgressStatus == {INITIALIZING, DOWNLOADING, MERGING, SEGMENTING}

SegmentDuration == 60
ShortClip == SegmentDuration - 15         \* one segment
LongClip == SegmentDuration + MaxExtra     \* two segments, the last one short
Durations == {ShortClip, LongClip}
ToolPercents == {20, 140}     \* percentages a tool's output may carry
ExitCodes == {0, 1}

\* a progress key: the process id itself ("main") or a derived / sibling id
Key(pid, tag) == <<pid, tag>>

NoRecord ==
    [exists |-> FALSE, status |-> Null, currentProcess |-> Null,
     downloadProcessId |-> NoPid, mergeProcessId |-> NoPid, splitProcessId |-> NoPid,
     error |-> Null, progress |-> EmptyMap,
     audioDuration |-> NoNum, totalDuration |-> NoNum, segments |-> NoNum,
     currentSegment |-> NoNum, totalSegments |-> NoNum,
     startTime |-> 0, endTime |-> 0, audioStartTime |-> 0, audioEndTime |-> 0,
     segmentTitleColor |-> FALSE]   \* TRUE: the record names a title colour

NoFiles == [video |-> FALSE, audio |-> 0, merged |-> 0, segments |-> FALSE]

NoSegments == [exists |-> FALSE, list |-> <<>>]

\* resp is the response sent by the step that led to the state, with a note of whether
\* the project directory existed when the request arrived; NoResp after a step that
\* sends no response
NoResp == [op |-> "none", code |-> 0, pid |-> NoPid, known |-> FALSE]

(***************************************************************************)
(* The progress store (lib/utils/project)                                  *)
(***************************************************************************)
getProjectMetadata(m) == m

\* a plausible slip: the record is rewritten from the updates alone
updateProjectMetadataOverwrite(m, updates) ==
    IF ~m.exists THEN m ELSE updates @@ [NoRecord EXCEPT !.exists = TRUE]

\* a plausible slip: a record that is missing is written from the updates
updateProjectMetadataCreate(m, updates) ==
    updates @@ [m EXCEPT !.exists = TRUE]

\* { ...metadata, ...updates } written back; nothing happens without a record
updateProjectMetadata(m, updates) ==
    IF ~m.exists THEN m ELSE updates @@ m

\* a plausible slip: the map is rebuilt with the one entry
updateProjectProgressSingle(m, processId, progressValue) ==
    IF ~getProjectMetadata(m).exists THEN m
    ELSE updateProjectMetadata(m, [progress |-> (processId :> progressValue)])

updateProjectProgress(m, processId, progressValue) ==
    IF ~getProjectMetadata(m).exists THEN m
    ELSE LET progress == (processId :> progressValue) @@ getProjectMetadata(m).progress
         IN  updateProjectMetadata(m, [progress |-> progress])

updateProjectStatus(m, status, error) ==
    updateProjectMetadata(m, [status |-> status, error |-> error])

\* a run of updateProjectProgress calls, in order
RECURSIVE ProgressWrites(_, _)
ProgressWrites(m, writes) ==
    IF writes = <<>> THEN m
    ELSE ProgressWrites(updateProjectProgress(m, writes[1][1], writes[1][2]), Tail(writes))

\* the history of what those calls were asked to store
RECURSIVE LogWrites(_, _, _)
LogWrites(log, exists, writes) ==
    IF ~exists \/ writes = <<>> THEN log
    ELSE LogWrites((writes[1][1] :> writes[1][2]) @@ log, exists, Tail(writes))

LogStatus(old, exists, status) == IF exists THEN status ELSE old

(***************************************************************************)
(* Initial state: the project id has not been used                         *)
(***************************************************************************)
Init ==
    /\ dirExists = FALSE
    /\ meta = NoRecord
    /\ files = NoFiles
    /\ segs = NoSegments
    /\ dls = EmptyMap
    /\ mgs = EmptyMap
    /\ sps = EmptyMap
    /\ caps = EmptyMap
    /\ dss = EmptyMap
    /\ nextPid = 1
    /\ resp = NoResp
    /\ lastProg = EmptyMap
    /\ lastStatus = Null

(***************************************************************************)
(* POST /api/projects/create.  The handler draws a fresh uuid, so it can   *)
(* land on this project id only while the id has never been used.          *)
(***************************************************************************)
CreateProject(valid) ==
    /\ ~dirExists /\ nextPid = 1
    /\ IF ~valid
       THEN /\ resp' = [op |-> "create", code |-> 400, pid |-> NoPid, known |-> dirExists]
            /\ UNCHANGED <<dirExists, meta, lastProg, lastStatus>>
       ELSE /\ dirExists' = TRUE
            /\ meta' = [NoRecord EXCEPT !.exists = TRUE, !.status = INITIALIZED]
            /\ lastProg' = EmptyMap
            /\ lastStatus' = INITIALIZED
            /\ resp' = [op |-> "create", code |-> 200, pid |-> NoPid, known |-> dirExists]
    /\ UNCHANGED <<files, segs, dls, mgs, sps, nextPid>>
    /\ UNCHANGED <<caps, dss>>

(***************************************************************************)
(* DELETE /api/projects/[projectId]                                        *)
(***************************************************************************)
DeleteProject ==
    /\ IF ~dirExists
       THEN /\ resp' = [op |-> "delete", code |-> 404, pid |-> NoPid, known |-> dirExists]
            /\ UNCHANGED <<dirExists, meta, files, segs, lastProg, lastStatus>>
       ELSE /\ dirExists' = FALSE
            /\ meta' = NoRecord
            /\ files' = NoFiles
            /\ segs' = NoSegments
            /\ lastProg' = EmptyMap
            /\ lastStatus' = Null
            /\ resp' = [op |-> "delete", code |-> 200, pid |-> NoPid, known |-> dirExists]
    /\ UNCHANGED <<dls, mgs, sps, nextPid>>
    /\ UNCHANGED <<caps, dss>>

(***************************************************************************)
(* POST /api/projects/[projectId]/process/download                         *)
(***************************************************************************)
\* a plausible slip: the process id is not recorded
DownloadRecordNoId(processId) ==
    [NoRecord EXCEPT !.exists = TRUE, !.status = INITIALIZING, !.currentProcess = "download"]

\* the fresh record the handler writes
DownloadRecord(processId) ==
    [NoRecord EXCEPT !.exists = TRUE, !.status = INITIALIZING,
                     !.currentProcess = "download", !.downloadProcessId = processId]

NewDownload ==
    [pc |-> "ffmpeg", video |-> "idle", audio |-> "idle",
     vprobe |-> "idle", aprobe |-> "idle", audioDuration |-> NoNum,
     videoEndTime |-> NoNum]

StartDownload(valid) ==
    /\ IF ~valid
       THEN /\ resp' = [op |-> "download", code |-> 400, pid |-> NoPid, known |-> dirExists]
            /\ UNCHANGED <<dirExists, meta, dls, nextPid, lastProg, lastStatus>>
       ELSE /\ Cardinality(DOMAIN dls) < MaxDownloads
            /\ LET processId == nextPid
                   writes == << <<Key(processId, "main"), 0>> >>
               IN  /\ dirExists' = TRUE
                   /\ meta' = ProgressWrites(DownloadRecord(processId), writes)
                   /\ lastProg' = LogWrites(EmptyMap, TRUE, writes)
                   /\ lastStatus' = INITIALIZING
                   /\ dls' = (processId :> NewDownload) @@ dls
                   /\ nextPid' = nextPid + 1
                   /\ resp' = [op |-> "download", code |-> 200, pid |-> processId, known |-> dirExists]
    /\ UNCHANGED <<files, segs, mgs, sps>>
    /\ UNCHANGED <<caps, dss>>

(***************************************************************************)
(* downloadMedia: the detached worker of the download stage                *)
(***************************************************************************)
\* the worker function has returned; only its job results are forgotten
DlReturned(d) == [d EXCEPT !.pc = "done", !.video = "idle", !.audio = "idle",
                           !.audioDuration = NoNum, !.videoEndTime = NoNum]

\* the end offset downloadMedia hands to the download of the video track, from the offsets
\* it reads back from the record (a request that names no offset stores 0 for it)
VideoEndTime(m) ==
    IF m.audioEndTime # 0 THEN m.audioEndTime - m.audioStartTime + m.startTime ELSE m.endTime

\* the catch block: updateProjectStatus(DOWNLOAD_ERROR, message)
DownloadFail(m, writes, message) ==
    /\ meta' = updateProjectStatus(ProgressWrites(m, writes), DOWNLOAD_ERROR, message)
    /\ lastProg' = LogWrites(lastProg, m.exists, writes)
    /\ lastStatus' = LogStatus(lastStatus, m.exists, DOWNLOAD_ERROR)

\* findFfmpegPaths resolves; on success the status write and both spawns follow
DlFfmpeg(w, found) ==
    /\ dls[w].pc = "ffmpeg"
    /\ IF ~found
       THEN /\ DownloadFail(meta, <<>>, "FFmpeg tools not found")
            /\ dls' = [dls EXCEPT ![w] = DlReturned(@)]
            /\ UNCHANGED dirExists
       ELSE /\ dirExists' = TRUE      \* mkdirSync(sourceDir, recursive)
            /\ IF ~meta.exists
               THEN \* readFileSync(metadataPath) throws
                    /\ DownloadFail(meta, <<>>, "ENOENT")
                    /\ dls' = [dls EXCEPT ![w] = DlReturned(@)]
               ELSE LET writes == << <<Key(w, "video"), 0>>, <<Key(w, "audio"), 0>> >>
                    IN  /\ meta' = ProgressWrites([meta EXCEPT !.status = DOWNLOADING], writes)
                        /\ lastProg' = LogWrites(lastProg, TRUE, writes)
                        /\ lastStatus' = DOWNLOADING
                        /\ dls' = [dls EXCEPT ![w].pc = "jobs", ![w].video = "run",
                                              ![w].audio = "run",
                                              ![w].videoEndTime = VideoEndTime(meta)]
    /\ resp' = NoResp
    /\ UNCHANGED <<files, segs, mgs, sps, nextPid>>
    /\ UNCHANGED <<caps, dss>>

\* yt-dlp prints a "[download] NN%" line
DlProgress(w, job, percentage) ==
    /\ dls[w][job] = "run"
    /\ LET writes == << <<Key(w, job), percentage>> >>
       IN  /\ meta' = ProgressWrites(meta, writes)
           /\ lastProg' = LogWrites(lastProg, meta.exists, writes)
    /\ resp' = NoResp
    /\ UNCHANGED <<dirExists, files, segs, dls, mgs, sps, nextPid, lastStatus>>
    /\ UNCHANGED <<caps, dss>>

\* what the close handler of downloadYouTubeVideo resolves with: success, or the error
\* text of the failure ("<stderr>" stands for what the tool wrote to its error stream)
DownloadResult(code, fileOk) ==
    IF code # 0 THEN "yt-dlp process exited with code 1. Error: <stderr>"
    ELSE IF fileOk THEN "ok"
    ELSE "Download completed but file is missing or empty"

FileOk(f, job) == IF job = "video" THEN f.video ELSE f.audio > 0

\* a plausible slip: only the video result is inspected
DownloadJoinVideoOnly(videoResult, audioResult) ==
    IF videoResult # "ok" THEN "Failed to download video: " \o videoResult ELSE Null

\* the checks after Promise.all([videoPromise, audioPromise]): the first failure is thrown
DownloadJoin(videoResult, audioResult) ==
    IF videoResult # "ok" THEN "Failed to download video: " \o videoResult
    ELSE IF audioResult # "ok" THEN "Failed to download audio: " \o audioResult
    ELSE Null

\* yt-dlp exits.  wrote: the tool left a non-empty file at outputPath, of duration d
DlClose(w, job, code, wrote, d) ==
    /\ dls[w][job] = "run"
    /\ LET files1 == IF wrote /\ dirExists
                     THEN IF job = "video" THEN [files EXCEPT !.video = TRUE]
                                           ELSE [files EXCEPT !.audio = d]
                     ELSE files
           result == DownloadResult(code, FileOk(files1, job))
           writes1 == IF result = "ok" THEN << <<Key(w, job), 100>> >> ELSE <<>>
           other == IF job = "video" THEN dls[w].audio ELSE dls[w].video
           videoResult == IF job = "video" THEN result ELSE other
           audioResult == IF job = "audio" THEN result ELSE other
           thrown == DownloadJoin(videoResult, audioResult)
           probes == << <<Key(w, "videoDuration"), 0>>, <<Key(w, "audioDuration"), 0>> >>
       IN  /\ files' = files1
           /\ IF other = "run"
              THEN \* Promise.all still waits for the sibling
                   /\ meta' = ProgressWrites(meta, writes1)
                   /\ lastProg' = LogWrites(lastProg, meta.exists, writes1)
                   /\ dls' = [dls EXCEPT ![w][job] = result]
                   /\ UNCHANGED lastStatus
              ELSE IF thrown # Null
              THEN /\ DownloadFail(meta, writes1, thrown)
                   /\ dls' = [dls EXCEPT ![w] = DlReturned(@)]
              ELSE \* both getMediaDuration calls start: progress 0, spawn ffprobe
                   /\ meta' = ProgressWrites(meta, writes1 \o probes)
                   /\ lastProg' = LogWrites(lastProg, meta.exists, writes1 \o probes)
                   /\ dls' = [dls EXCEPT ![w][job] = result, ![w].pc = "probes",
                                         ![w].vprobe = "run", ![w].aprobe = "run"]
                   /\ UNCHANGED lastStatus
    /\ resp' = NoResp
    /\ UNCHANGED <<dirExists, segs, mgs, sps, nextPid>>
    /\ UNCHANGED <<caps, dss>>

ProbeOther(probe) == IF probe = "vprobe" THEN "aprobe" ELSE "vprobe"

ProbeKey(probe) == IF probe = "vprobe" THEN "videoDuration" ELSE "audioDuration"

\* ffprobe writes to stderr: getMediaDuration reports the fixed midpoint
DlProbeStderr(w, probe) ==
    /\ dls[w][probe] = "run"
    /\ LET writes == << <<Key(w, ProbeKey(probe)), 50>> >>
       IN  /\ meta' = ProgressWrites(meta, writes)
           /\ lastProg' = LogWrites(lastProg, meta.exists, writes)
    /\ resp' = NoResp
    /\ UNCHANGED <<dirExists, files, segs, dls, mgs, sps, nextPid, lastStatus>>
    /\ UNCHANGED <<caps, dss>>

\* what getMediaDuration settles with on close: the duration, or a rejection
ProbeResult(code, parsed) ==
    IF code # 0 THEN "ffprobe exited with code 1: <stderr>"
    ELSE IF ~parsed THEN "Unable to parse duration from ffprobe output"
    ELSE "ok"

\* the final metadata write of downloadMedia
DownloadedRecord(m, processId, audioDuration) ==
    [m EXCEPT !.status = DOWNLOADED, !.audioDuration = audioDuration,
              !.totalDuration = audioDuration, !.downloadProcessId = processId,
              !.currentProcess = "trim"]

\* ffprobe exits.  parsed: its stdout parses as a number
DlProbeClose(w, probe, code, parsed) ==
    /\ dls[w][probe] = "run"
    /\ code = 0 => FileOk(files, IF probe = "vprobe" THEN "video" ELSE "audio")
    /\ LET writes == << <<Key(w, ProbeKey(probe)), 100>> >>
           result == ProbeResult(code, parsed)
           other == IF probe = "vprobe" THEN dls[w].aprobe ELSE dls[w].vprobe
           audioDuration == IF probe = "aprobe" THEN files.audio ELSE dls[w].audioDuration
           m1 == ProgressWrites(meta, writes)
       IN  /\ lastProg' = LogWrites(lastProg, meta.exists, writes)
           /\ IF dls[w].pc # "probes"
              THEN \* the worker already returned through its catch block
                   /\ meta' = m1
                   /\ dls' = [dls EXCEPT ![w][probe] = "closed"]
                   /\ UNCHANGED lastStatus
              ELSE IF result # "ok"
              THEN /\ meta' = updateProjectStatus(m1, DOWNLOAD_ERROR, result)
                   /\ lastStatus' = LogStatus(lastStatus, meta.exists, DOWNLOAD_ERROR)
                   /\ dls' = [dls EXCEPT ![w] = DlReturned([@ EXCEPT ![probe] = "closed"])]
              ELSE IF other = "run"
              THEN /\ meta' = m1
                   /\ dls' = [dls EXCEPT ![w][probe] = "ok",
                                         ![w].audioDuration = audioDuration]
                   /\ UNCHANGED lastStatus
              ELSE IF ~meta.exists
              THEN \* readFileSync(metadataPath) throws; the catch block finds no record
                   /\ meta' = updateProjectStatus(m1, DOWNLOAD_ERROR, "ENOENT")
                   /\ dls' = [dls EXCEPT ![w] = DlReturned([@ EXCEPT ![probe] = "closed",
                                                                     ![ProbeOther(probe)] = "closed"])]
                   /\ UNCHANGED lastStatus
              ELSE /\ meta' = DownloadedRecord(m1, w, audioDuration)
                   /\ lastStatus' = DOWNLOADED
                   /\ dls' = [dls EXCEPT ![w] = DlReturned([@ EXCEPT ![probe] = "closed",
                                                                     ![ProbeOther(probe)] = "closed"])]
    /\ resp' = NoResp
    /\ UNCHANGED <<dirExists, files, segs, mgs, sps, nextPid>>
    /\ UNCHANGED <<caps, dss>>

(***************************************************************************)
(* POST /api/projects/[projectId]/process/merge                            *)
(***************************************************************************)
\* a plausible slip: the audio source is not looked for
MergeSourcesExistVideoOnly(f) == f.video

\* fs.existsSync(videoPath) && fs.existsSync(audioPath)
MergeSourcesExist(f) == f.video /\ f.audio > 0

\* a plausible slip: the process id is not recorded
MergingRecordNoId(m, processId) ==
    [m EXCEPT !.status = MERGING, !.currentProcess = "merge"]

\* the metadata write of the handler
MergingRecord(m, processId) ==
    [m EXCEPT !.status = MERGING, !.mergeProcessId = processId, !.currentProcess = "merge"]

NewMerge == [pc |-> "ffmpeg", audioDuration |-> NoNum]

\* limit: the accepted merge starts a behaviour may hold
StartMerge(limit) ==
    /\ IF ~dirExists \/ ~meta.exists
       THEN /\ resp' = [op |-> "merge", code |-> 404, pid |-> NoPid, known |-> dirExists]
            /\ UNCHANGED <<meta, mgs, nextPid, lastProg, lastStatus>>
       ELSE IF ~MergeSourcesExist(files)
       THEN /\ resp' = [op |-> "merge", code |-> 400, pid |-> NoPid, known |-> dirExists]
            /\ UNCHANGED <<meta, mgs, nextPid, lastProg, lastStatus>>
       ELSE /\ Cardinality(DOMAIN mgs) < limit
            /\ LET processId == nextPid
                   writes == << <<Key(processId, "main"), 0>> >>
               IN  /\ meta' = ProgressWrites(MergingRecord(meta, processId), writes)
                   /\ lastProg' = LogWrites(lastProg, TRUE, writes)
                   /\ lastStatus' = MERGING
                   /\ mgs' = (processId :> NewMerge) @@ mgs
                   /\ nextPid' = nextPid + 1
                   /\ resp' = [op |-> "merge", code |-> 200, pid |-> processId, known |-> dirExists]
    /\ UNCHANGED <<dirExists, files, segs, dls, sps>>
    /\ UNCHANGED <<caps, dss>>

(***************************************************************************)
(* mergeMedia: the detached worker of the merge stage                      *)
(***************************************************************************)
MgReturned(g) == [g EXCEPT !.pc = "done", !.audioDuration = NoNum]

\* a plausible slip: the catch block only logs
MergeFailLogOnly(m, writes, message) ==
    /\ meta' = ProgressWrites(m, writes)
    /\ lastProg' = LogWrites(lastProg, m.exists, writes)
    /\ UNCHANGED lastStatus

\* the catch block: updateProjectStatus(MERGING_ERROR, message)
MergeFail(m, writes, message) ==
    /\ meta' = updateProjectStatus(ProgressWrites(m, writes), MERGING_ERROR, message)
    /\ lastProg' = LogWrites(lastProg, m.exists, writes)
    /\ lastStatus' = LogStatus(lastStatus, m.exists, MERGING_ERROR)

\* findFfmpegPaths resolves; on success: status write, progress resets, ffprobe spawned
MgFfmpeg(w, found) ==
    /\ mgs[w].pc = "ffmpeg"
    /\ IF ~found
       THEN /\ MergeFail(meta, <<>>, "FFmpeg tools not found")
            /\ mgs' = [mgs EXCEPT ![w] = MgReturned(@)]
            /\ UNCHANGED dirExists
       ELSE /\ dirExists' = TRUE      \* mkdirSync(mergeDir, recursive)
            /\ IF ~meta.exists
               THEN /\ MergeFail(meta, <<>>, "ENOENT")
                    /\ mgs' = [mgs EXCEPT ![w] = MgReturned(@)]
               ELSE LET writes == << <<Key(w, "main"), 0>>, <<Key(w, "duration"), 0>>,
                                     <<Key(w, "duration"), 0>> >>
                    IN  /\ meta' = ProgressWrites([meta EXCEPT !.status = MERGING,
                                                               !.currentProcess = "merge"], writes)
                        /\ lastProg' = LogWrites(lastProg, TRUE, writes)
                        /\ lastStatus' = MERGING
                        /\ mgs' = [mgs EXCEPT ![w].pc = "probe"]
    /\ resp' = NoResp
    /\ UNCHANGED <<files, segs, dls, sps, nextPid>>
    /\ UNCHANGED <<caps, dss>>

MgProbeStderr(w) ==
    /\ mgs[w].pc = "probe"
    /\ LET writes == << <<Key(w, "duration"), 50>> >>
       IN  /\ meta' = ProgressWrites(meta, writes)
           /\ lastProg' = LogWrites(lastProg, meta.exists, writes)
    /\ resp' = NoResp
    /\ UNCHANGED <<dirExists, files, segs, dls, mgs, sps, nextPid, lastStatus>>
    /\ UNCHANGED <<caps, dss>>

Partial == -1     \* a file the tool has opened and not finished

\* ffprobe exits; on success mergeVideoAndAudio checks its inputs and spawns ffmpeg,
\* which opens (truncates) merge/processed.mp4
MgProbeClose(w, code, parsed) ==
    /\ mgs[w].pc = "probe"
    /\ code = 0 => files.audio > 0
    /\ LET writes1 == << <<Key(w, "duration"), 100>> >>
           writes2 == writes1 \o << <<Key(w, "duration"), 100>>, <<Key(w, "main"), 25>> >>
       IN  IF ProbeResult(code, parsed) # "ok"
           THEN /\ MergeFail(meta, writes1, ProbeResult(code, parsed))
                /\ mgs' = [mgs EXCEPT ![w] = MgReturned(@)]
                /\ UNCHANGED files
           ELSE IF ~MergeSourcesExist(files)
           THEN /\ MergeFail(meta, writes2, "input file not found")
                /\ mgs' = [mgs EXCEPT ![w] = MgReturned(@)]
                /\ UNCHANGED files
           ELSE /\ meta' = ProgressWrites(meta, writes2)
                /\ lastProg' = LogWrites(lastProg, meta.exists, writes2)
                /\ mgs' = [mgs EXCEPT ![w].pc = "encode", ![w].audioDuration = files.audio]
                /\ files' = IF dirExists THEN [files EXCEPT !.merged = Partial] ELSE files
                /\ UNCHANGED lastStatus
    /\ resp' = NoResp
    /\ UNCHANGED <<dirExists, segs, dls, sps, nextPid>>
    /\ UNCHANGED <<caps, dss>>

Min(a, b) == IF a < b THEN a ELSE b

\* Math.min(Math.round((elapsedSeconds / audioDuration) * 100), 100)
OperationProgress(percent) == Min(percent, 100)

\* ffmpeg prints a "frame= ... time=" line and the 2 s throttle lets it through
MgProgress(w, percent) ==
    /\ mgs[w].pc = "encode"
    /\ LET writes == << <<Key(w, "main"), OperationProgress(percent)>> >>
       IN  /\ meta' = ProgressWrites(meta, writes)
           /\ lastProg' = LogWrites(lastProg, meta.exists, writes)
    /\ resp' = NoResp
    /\ UNCHANGED <<dirExists, files, segs, dls, mgs, sps, nextPid, lastStatus>>
    /\ UNCHANGED <<caps, dss>>

\* a plausible slip: the status is not written on completion
MergedRecordNoStatus(m, processId, audioDuration) ==
    [m EXCEPT !.mergeProcessId = processId,
              !.audioDuration = audioDuration, !.totalDuration = audioDuration,
              !.currentProcess = "split"]

\* the final metadata write of mergeMedia
MergedRecord(m, processId, audioDuration) ==
    [m EXCEPT !.status = MERGED, !.mergeProcessId = processId,
              !.audioDuration = audioDuration, !.totalDuration = audioDuration,
              !.currentProcess = "split"]

\* ffmpeg exits.  wrote: it finished the output file
MgClose(w, code, wrote) ==
    /\ mgs[w].pc = "encode"
    /\ files' = IF wrote /\ dirExists /\ code = 0
                THEN [files EXCEPT !.merged = mgs[w].audioDuration]
                ELSE files
    /\ IF code # 0
       THEN MergeFail(meta, <<>>, "FFmpeg exited with code 1")
       ELSE IF ~meta.exists
       THEN MergeFail(meta, <<>>, "ENOENT")
       ELSE LET writes == << <<Key(w, "main"), 100>> >>
            IN  /\ meta' = ProgressWrites(MergedRecord(meta, w, mgs[w].audioDuration), writes)
                /\ lastProg' = LogWrites(lastProg, TRUE, writes)
                /\ lastStatus' = MERGED
    /\ mgs' = [mgs EXCEPT ![w] = MgReturned(@)]
    /\ resp' = NoResp
    /\ UNCHANGED <<dirExists, segs, dls, sps, nextPid>>
    /\ UNCHANGED <<caps, dss>>

(***************************************************************************)
(* POST /api/projects/[projectId]/process/split                            *)
(***************************************************************************)
\* fs.existsSync(processedVideoPath): an unfinished file exists too
MergedExists(f) == f.merged # 0

\* the metadata write of the handler
SplitStartRecord(m, processId) ==
    [m EXCEPT !.status = INITIALIZING, !.splitProcessId = processId, !.currentProcess = "split"]

NewSplit == [pc |-> "ffmpeg", videoDuration |-> NoNum, i |-> 0]

StartSplit ==
    /\ IF ~dirExists \/ ~meta.exists
       THEN /\ resp' = [op |-> "split", code |-> 404, pid |-> NoPid, known |-> dirExists]
            /\ UNCHANGED <<meta, sps, nextPid, lastProg, lastStatus>>
       ELSE IF ~MergedExists(files)
       THEN /\ resp' = [op |-> "split", code |-> 400, pid |-> NoPid, known |-> dirExists]
            /\ UNCHANGED <<meta, sps, nextPid, lastProg, lastStatus>>
       ELSE /\ Cardinality(DOMAIN sps) < MaxSplits
            /\ LET processId == nextPid
                   writes == << <<Key(processId, "main"), 0>> >>
               IN  /\ meta' = ProgressWrites(SplitStartRecord(meta, processId), writes)
                   /\ lastProg' = LogWrites(lastProg, TRUE, writes)
                   /\ lastStatus' = INITIALIZING
                   /\ sps' = (processId :> NewSplit) @@ sps
                   /\ nextPid' = nextPid + 1
                   /\ resp' = [op |-> "split", code |-> 200, pid |-> processId, known |-> dirExists]
    /\ UNCHANGED <<dirExists, files, segs, dls, mgs>>
    /\ UNCHANGED <<caps, dss>>

(***************************************************************************)
(* splitMedia / splitVideoIntoSegments: the detached worker of the split   *)
(***************************************************************************)
SpReturned(p) == [p EXCEPT !.pc = "done", !.videoDuration = NoNum, !.i = 0]

\* the catch block: updateProjectStatus(SEGMENTING_ERROR, message)
SplitFail(m, writes, message) ==
    /\ meta' = updateProjectStatus(ProgressWrites(m, writes), SEGMENTING_ERROR, message)
    /\ lastProg' = LogWrites(lastProg, m.exists, writes)
    /\ lastStatus' = LogStatus(lastStatus, m.exists, SEGMENTING_ERROR)

\* Math.ceil(videoDuration / segmentDuration)
SegmentCount(videoDuration, segmentDuration) ==
    (videoDuration + segmentDuration - 1) \div segmentDuration

\* Math.round((i / segmentCount) * 100)
ProgressPercentage(i, segmentCount) == (200 * i + segmentCount) \div (2 * segmentCount)

\* a plausible slip: the last segment is not clipped
CurrentSegmentDurationUnclipped(i, videoDuration, segmentDuration) == segmentDuration

\* Math.min(segmentDuration, videoDuration - startTime) with startTime = i * segmentDuration
CurrentSegmentDuration(i, videoDuration, segmentDuration) ==
    Min(segmentDuration, videoDuration - i * segmentDuration)

\* the entry pushed for loop index i (0-based)
NewSegment(i, videoDuration, segmentDuration) ==
    [id |-> i + 1, duration |-> CurrentSegmentDuration(i, videoDuration, segmentDuration),
     captioningStatus |-> Null, captioningProgress |-> NoNum,
     captioningProcessId |-> NoPid, captioningError |-> Null]

\* the array returned by splitVideoIntoSegments
SegmentList(videoDuration, segmentDuration) ==
    [i \in 1..SegmentCount(videoDuration, segmentDuration) |->
        NewSegment(i - 1, videoDuration, segmentDuration)]

\* findFfmpegPaths resolves; on success: status write, progress reset, first ffprobe
SpFfmpeg(w, found) ==
    /\ sps[w].pc = "ffmpeg"
    /\ IF ~found
       THEN /\ SplitFail(meta, <<>>, "FFmpeg tools not found")
            /\ sps' = [sps EXCEPT ![w] = SpReturned(@)]
            /\ UNCHANGED <<dirExists, files>>
       ELSE IF ~meta.exists
       THEN /\ SplitFail(meta, <<>>, "ENOENT")
            /\ sps' = [sps EXCEPT ![w] = SpReturned(@)]
            /\ UNCHANGED <<dirExists, files>>
       ELSE LET writes == << <<Key(w, "main"), 0>>, <<Key(w, "probe1"), 0>> >>
            IN  /\ meta' = ProgressWrites([meta EXCEPT !.status = SEGMENTING,
                                                       !.currentSegment = 0,
                                                       !.totalSegments = 0], writes)
                /\ lastProg' = LogWrites(lastProg, TRUE, writes)
                /\ lastStatus' = SEGMENTING
                /\ dirExists' = TRUE      \* mkdirSync(segmentsDir, recursive)
                /\ files' = [files EXCEPT !.segments = TRUE]
                /\ sps' = [sps EXCEPT ![w].pc = "probe1"]
    /\ resp' = NoResp
    /\ UNCHANGED <<segs, dls, mgs, nextPid>>
    /\ UNCHANGED <<caps, dss>>

SpProbeStderr(w) ==
    /\ sps[w].pc \in {"probe1", "probe2"}
    /\ LET writes == << <<Key(w, sps[w].pc), 50>> >>
       IN  /\ meta' = ProgressWrites(meta, writes)
           /\ lastProg' = LogWrites(lastProg, meta.exists, writes)
    /\ resp' = NoResp
    /\ UNCHANGED <<dirExists, files, segs, dls, mgs, sps, nextPid, lastStatus>>
    /\ UNCHANGED <<caps, dss>>

\* what ffprobe may print for merge/processed.mp4: its duration, or anything if the
\* file is still being written
ProbedDurations(f) == IF f.merged = Partial THEN Durations ELSE {f.merged}

\* the first ffprobe exits; on success the loop starts with i = 0
SpProbe1Close(w, code, parsed, videoDuration) ==
    /\ sps[w].pc = "probe1"
    /\ code = 0 => MergedExists(files)
    /\ videoDuration \in (IF code = 0 /\ parsed THEN ProbedDurations(files) ELSE {NoNum})
    /\ LET writes1 == << <<Key(w, "probe1"), 100>> >>
           segmentCount == SegmentCount(videoDuration, SegmentDuration)
           writes2 == writes1 \o << <<Key(w, "main"), ProgressPercentage(0, segmentCount)>> >>
       IN  IF ProbeResult(code, parsed) # "ok"
           THEN /\ SplitFail(meta, writes1, ProbeResult(code, parsed))
                /\ sps' = [sps EXCEPT ![w] = SpReturned(@)]
           ELSE /\ meta' = updateProjectMetadata(ProgressWrites(meta, writes2),
                               [currentSegment |-> 1, totalSegments |-> segmentCount])
                /\ lastProg' = LogWrites(lastProg, meta.exists, writes2)
                /\ sps' = [sps EXCEPT ![w].pc = "segment", ![w].videoDuration = videoDuration,
                                      ![w].i = 0]
                /\ UNCHANGED lastStatus
    /\ resp' = NoResp
    /\ UNCHANGED <<dirExists, files, segs, dls, mgs, nextPid>>
    /\ UNCHANGED <<caps, dss>>

\* the ffmpeg cutting segment i + 1 exits
SpSegmentClose(w, code) ==
    /\ sps[w].pc = "segment"
    /\ LET segmentCount == SegmentCount(sps[w].videoDuration, SegmentDuration)
           i == sps[w].i + 1
       IN  IF code # 0
           THEN /\ SplitFail(meta, <<>>, "FFmpeg segment exited with code 1")
                /\ sps' = [sps EXCEPT ![w] = SpReturned(@)]
           ELSE IF i < segmentCount
           THEN LET writes == << <<Key(w, "main"), ProgressPercentage(i, segmentCount)>> >>
                IN  /\ meta' = updateProjectMetadata(ProgressWrites(meta, writes),
                                    [currentSegment |-> i + 1, totalSegments |-> segmentCount])
                    /\ lastProg' = LogWrites(lastProg, meta.exists, writes)
                    /\ sps' = [sps EXCEPT ![w].i = i]
                    /\ UNCHANGED lastStatus
           ELSE \* the loop is over; splitMedia probes the duration once more
                LET writes == << <<Key(w, "main"), 100>>, <<Key(w, "probe2"), 0>> >>
                IN  /\ meta' = ProgressWrites(
                                  updateProjectMetadata(
                                      updateProjectProgress(meta, writes[1][1], writes[1][2]),
                                      [currentSegment |-> segmentCount,
                                       totalSegments |-> segmentCount]),
                                  Tail(writes))
                    /\ lastProg' = LogWrites(lastProg, meta.exists, writes)
                    /\ sps' = [sps EXCEPT ![w].pc = "probe2", ![w].i = 0]
                    /\ UNCHANGED lastStatus
    /\ resp' = NoResp
    /\ UNCHANGED <<dirExists, files, segs, dls, mgs, nextPid>>
    /\ UNCHANGED <<caps, dss>>

\* a plausible slip: the segment count is not written
SegmentedRecordNoCount(m, processId, count, videoDuration) ==
    [m EXCEPT !.status = SEGMENTED,
              !.totalDuration = IF @ = NoNum \/ @ = 0 THEN videoDuration ELSE @,
              !.splitProcessId = processId]

\* the final metadata write of splitMedia
SegmentedRecord(m, processId, count, videoDuration) ==
    [m EXCEPT !.status = SEGMENTED, !.segments = count,
              !.totalDuration = IF @ = NoNum \/ @ = 0 THEN videoDuration ELSE @,
              !.splitProcessId = processId]

\* the second ffprobe exits; on success the record and segments.json are written
SpProbe2Close(w, code, parsed, videoDuration) ==
    /\ sps[w].pc = "probe2"
    /\ code = 0 => MergedExists(files)
    /\ videoDuration \in (IF code = 0 /\ parsed THEN ProbedDurations(files) ELSE {NoNum})
    /\ LET writes1 == << <<Key(w, "probe2"), 100>> >>
           writes2 == writes1 \o << <<Key(w, "main"), 100>> >>
           segments == SegmentList(sps[w].videoDuration, SegmentDuration)
       IN  IF ProbeResult(code, parsed) # "ok"
           THEN /\ SplitFail(meta, writes1, ProbeResult(code, parsed))
                /\ UNCHANGED segs
           ELSE IF ~meta.exists
           THEN /\ SplitFail(meta, writes1, "ENOENT")
                /\ UNCHANGED segs
           ELSE /\ meta' = updateProjectProgress(
                               SegmentedRecord(
                                   updateProjectProgress(meta, writes1[1][1], writes1[1][2]),
                                   w, Len(segments), videoDuration),
                               Key(w, "main"), 100)
                /\ lastProg' = LogWrites(lastProg, TRUE, writes2)
                /\ lastStatus' = SEGMENTED
                /\ segs' = [exists |-> TRUE, list |-> segments]
    /\ sps' = [sps EXCEPT ![w] = SpReturned(@)]
    /\ resp' = NoResp
    /\ UNCHANGED <<dirExists, files, dls, mgs, nextPid>>
    /\ UNCHANGED <<caps, dss>>

(***************************************************************************)
(* DELETE /api/projects/[projectId]/segments.  The handler awaits the      *)
(* removal of segments/ and of segments.json before it writes the record.  *)
(***************************************************************************)
SEGMENTS_DELETED == "segments_deleted"

\* the metadata write at the end of the handler
SegmentsDeletedRecord(m) ==
    IF ~m.exists THEN m ELSE [m EXCEPT !.status = SEGMENTS_DELETED, !.segments = 0]

\* the handler from the existsSync(segmentsJsonPath) test on
DsAfterRm(r) ==
    IF segs.exists
    THEN /\ dss' = (r :> "unlink") @@ dss
         /\ resp' = NoResp
         /\ UNCHANGED <<meta, lastStatus>>
    ELSE /\ dss' = (r :> "done") @@ dss
         /\ meta' = SegmentsDeletedRecord(meta)
         /\ lastStatus' = LogStatus(lastStatus, meta.exists, SEGMENTS_DELETED)
         /\ resp' = [op |-> "deleteSegments", code |-> 200, pid |-> NoPid, known |-> dirExists]

DsStart ==
    /\ IF ~dirExists
       THEN /\ resp' = [op |-> "deleteSegments", code |-> 404, pid |-> NoPid, known |-> dirExists]
            /\ UNCHANGED <<meta, dss, lastStatus>>
       ELSE /\ Cardinality(DOMAIN dss) < MaxDeletes
            /\ LET r == Cardinality(DOMAIN dss) + 1
               IN  IF files.segments
                   THEN /\ dss' = (r :> "rm") @@ dss
                        /\ resp' = NoResp
                        /\ UNCHANGED <<meta, lastStatus>>
                   ELSE DsAfterRm(r)
    /\ UNCHANGED <<dirExists, files, segs, dls, mgs, sps, caps, nextPid, lastProg>>

\* fs.promises.rm(segmentsDir, recursive, force) settles
DsRm(r) ==
    /\ dss[r] = "rm"
    /\ files' = [files EXCEPT !.segments = FALSE]
    /\ DsAfterRm(r)
    /\ UNCHANGED <<dirExists, segs, dls, mgs, sps, caps, nextPid, lastProg>>

\* fs.promises.unlink(segmentsJsonPath) settles; it rejects when the file is gone
DsUnlink(r) ==
    /\ dss[r] = "unlink"
    /\ dss' = [dss EXCEPT ![r] = "done"]
    /\ IF ~segs.exists
       THEN /\ resp' = [op |-> "deleteSegments", code |-> 500, pid |-> NoPid, known |-> dirExists]
            /\ UNCHANGED <<meta, segs, lastStatus>>
       ELSE /\ segs' = NoSegments
            /\ meta' = SegmentsDeletedRecord(meta)
            /\ lastStatus' = LogStatus(lastStatus, meta.exists, SEGMENTS_DELETED)
            /\ resp' = [op |-> "deleteSegments", code |-> 200, pid |-> NoPid, known |-> dirExists]
    /\ UNCHANGED <<dirExists, files, dls, mgs, sps, caps, nextPid, lastProg>>

(***************************************************************************)
(* segments.json as the caption code sees it                               *)
(***************************************************************************)
NoId == 0                 \* an entry without an id field
Throws == -2              \* the callback of findIndex dereferences null

\* {}: what spreading undefined or null yields
NoFields ==
    [id |-> NoId, duration |-> NoNum, captioningStatus |-> Null,
     captioningProgress |-> NoNum, captioningProcessId |-> NoPid, captioningError |-> Null]

\* an empty array slot, serialised as null
NullSegment == [NoFields EXCEPT !.id = NoNum]

IsNull(entry) == entry.id = NoNum

\* a plausible slip: a miss falls back to the first entry
findIndexOrFirst(list, id) ==
    LET hits == {i \in 1..Len(list) : list[i].id = id}
    IN  IF hits = {} THEN 0 ELSE (CHOOSE h \in hits : \A g \in hits : h <= g) - 1

\* segments.findIndex((s) => s.id === id), 0-based
findIndex(list, id) ==
    LET hits == {i \in 1..Len(list) : IsNull(list[i]) \/ list[i].id = id}
    IN  IF hits = {} THEN -1
        ELSE LET i == CHOOSE h \in hits : \A g \in hits : h <= g
             IN  IF IsNull(list[i]) THEN Throws ELSE i - 1

\* segments[index] = entry on a JavaScript array (index 0-based)
ArrayAssign(list, index, entry) ==
    [i \in 1..(IF index + 1 > Len(list) THEN index + 1 ELSE Len(list)) |->
        IF i = index + 1 THEN entry
        ELSE IF i <= Len(list) THEN list[i] ELSE NullSegment]

\* { ...segments[index] }
Spread(list, index) ==
    IF index + 1 > Len(list) \/ IsNull(list[index + 1]) THEN NoFields ELSE list[index + 1]

(***************************************************************************)
(* POST /api/projects/[projectId]/process/caption                          *)
(***************************************************************************)
IN_PROGRESS == "in-progress"
COMPLETED == "completed"
FAILED == "failed"

\* a plausible slip: the progress of the earlier attempt is kept
CaptionStartEntryKeepProgress(segment, processId) ==
    [segment EXCEPT !.captioningStatus = IN_PROGRESS, !.captioningProcessId = processId]

\* the entry the handler writes for the requested segment
CaptionStartEntry(segment, processId) ==
    [segment EXCEPT !.captioningStatus = IN_PROGRESS, !.captioningProcessId = processId,
                    !.captioningProgress = 0]

NewCaption(segment) ==
    [pc |-> "ffmpeg", id |-> segment.id, segmentIndex |-> -1,
     captions |-> <<>>,        \* the local captions, set when generateCaptions resolves
     srt |-> <<>>,             \* the lines of the segment's SRT file
     subtitle |-> Null,        \* the local subtitle, set when generateSubtitle settles
     leftovers |-> FALSE]      \* intermediate artifacts left behind by a failed cleanup

CaptionActive(c) == c.pc \notin {COMPLETED, FAILED}

\* a plausible slip: a request without a segment number is answered as accepted
CaptionRespAccepted(code, processId, given, segmentNumber) ==
    [op |-> "caption", code |-> IF given THEN code ELSE 200, pid |-> processId,
     known |-> dirExists, given |-> given, segmentNumber |-> IF given THEN segmentNumber ELSE NoNum]

\* the response, with the request body it answers (segmentNumber, or none given)
CaptionResp(code, processId, given, segmentNumber) ==
    [op |-> "caption", code |-> code, pid |-> processId, known |-> dirExists,
     given |-> given, segmentNumber |-> IF given THEN segmentNumber ELSE NoNum]

\* a plausible slip: the handler marks the project as being captioned
TitleColorRecordCaptioning(m) ==
    [m EXCEPT !.segmentTitleColor = TRUE, !.status = CAPTIONING]

\* the record after the handler's look at the title colour: one is drawn and the record
\* written back only when the record names none
TitleColorRecord(m) ==
    IF m.segmentTitleColor THEN m ELSE [m EXCEPT !.segmentTitleColor = TRUE]

StartCaption(given, segmentNumber) ==
    /\ LET reject(code) == /\ resp' = CaptionResp(code, NoPid, given, segmentNumber)
                           /\ UNCHANGED <<meta, segs, caps, nextPid>>
           segmentIndex == findIndex(segs.list, segmentNumber)
       IN  IF ~given THEN reject(400)
           ELSE IF ~dirExists THEN reject(404)
           ELSE IF ~segs.exists THEN reject(400)
           ELSE IF segmentIndex = Throws THEN reject(500)
           ELSE IF segmentIndex = -1 THEN reject(404)
           ELSE IF ~meta.exists THEN reject(500)    \* readFileSync(metadataPath) throws
           ELSE /\ Cardinality(DOMAIN caps) < MaxCaptions
                /\ LET processId == nextPid
                       segment == segs.list[segmentIndex + 1]
                   IN  /\ segs' = [segs EXCEPT !.list = ArrayAssign(@, segmentIndex,
                                                CaptionStartEntry(segment, processId))]
                       /\ meta' = TitleColorRecord(meta)
                       /\ caps' = (processId :> NewCaption(segment)) @@ caps
                       /\ nextPid' = nextPid + 1
                       /\ resp' = CaptionResp(200, processId, given, segmentNumber)
    /\ UNCHANGED <<dirExists, files, dls, mgs, sps, dss, lastProg, lastStatus>>

(***************************************************************************)
(* captionSegment: the detached pipeline of one segment                    *)
(***************************************************************************)
\* the closure updateSegmentProgress; every exception inside is swallowed
updateSegmentProgress(s, segmentIndex, progress) ==
    IF segmentIndex = -1 \/ ~s.exists THEN s
    ELSE IF segmentIndex + 1 > Len(s.list) THEN s
    ELSE IF IsNull(s.list[segmentIndex + 1]) THEN s
    ELSE IF s.list[segmentIndex + 1].captioningStatus # IN_PROGRESS THEN s
    ELSE [s EXCEPT !.list[segmentIndex + 1].captioningProgress = Min(progress, 100)]

\* a plausible slip: the catch block marks the pipeline and writes nothing
CaptionFailedUnrecorded(s, id, message) == s

\* a plausible slip: the failure is stamped on every entry
CaptionFailedAll(s, id, message) ==
    IF ~s.exists THEN s
    ELSE [s EXCEPT !.list = [i \in 1..Len(s.list) |->
                                [s.list[i] EXCEPT !.captioningStatus = FAILED,
                                                  !.captioningError = message]]]

\* the catch block: the list is read again and the entry found by id
CaptionFailed(s, id, message) ==
    IF ~s.exists THEN s
    ELSE LET segmentIndex == findIndex(s.list, id)
         IN  IF segmentIndex = Throws \/ segmentIndex = -1 THEN s
             ELSE [s EXCEPT !.list[segmentIndex + 1] =
                                [@ EXCEPT !.captioningStatus = FAILED,
                                          !.captioningError = message]]

\* a plausible slip: the completion write stores the progress and leaves the status
CaptionCompletedProgressOnly(s, segmentIndex) ==
    IF segmentIndex = -1 THEN s
    ELSE [s EXCEPT !.list = ArrayAssign(@, segmentIndex,
                                [Spread(s.list, segmentIndex) EXCEPT !.captioningProgress = 100])]

\* the completion write: the list is read again, the index is the one found at the start
CaptionCompleted(s, segmentIndex) ==
    IF segmentIndex = -1 THEN s
    ELSE [s EXCEPT !.list = ArrayAssign(@, segmentIndex,
                                [Spread(s.list, segmentIndex) EXCEPT
                                    !.captioningStatus = COMPLETED,
                                    !.captioningProgress = 100])]

\* an exception reaches the catch block of captionSegment
CaptionFail(w, s, message) ==
    /\ segs' = CaptionFailed(s, caps[w].id, message)
    /\ caps' = [caps EXCEPT ![w].pc = FAILED, ![w].segmentIndex = -1, ![w].subtitle = Null]

\* the pipeline moves on after updateSegmentProgress(progress)
CaptionStep(w, pc, progress) ==
    /\ segs' = updateSegmentProgress(segs, caps[w].segmentIndex, progress)
    /\ caps' = [caps EXCEPT ![w].pc = pc]

\* findFfmpegPaths resolves; the list is read and the index of the segment fixed
CpFfmpeg(w, found) ==
    /\ caps[w].pc = "ffmpeg"
    /\ IF ~found
       THEN /\ CaptionFail(w, segs, "FFmpeg tools not found")
            /\ UNCHANGED dirExists
       ELSE /\ dirExists' = TRUE          \* mkdirSync(captionsDir, recursive)
            /\ IF ~segs.exists
               THEN CaptionFail(w, segs, "ENOENT")
               ELSE LET segmentIndex == findIndex(segs.list, caps[w].id)
                    IN  IF segmentIndex = Throws
                        THEN CaptionFail(w, segs, "TypeError")
                        ELSE /\ segs' = updateSegmentProgress(segs, segmentIndex, 0)
                             /\ caps' = [caps EXCEPT ![w].pc = "extract",
                                                     ![w].segmentIndex = segmentIndex]
    /\ resp' = NoResp
    /\ UNCHANGED <<meta, files, dls, mgs, sps, dss, nextPid, lastProg, lastStatus>>

\* the ffmpeg of extractAudioFromSegment exits
CpExtractClose(w, code) ==
    /\ caps[w].pc = "extract"
    /\ code = 0 => files.segments
    /\ IF code # 0
       THEN CaptionFail(w, segs, "FFmpeg extract audio exited with code 1")
       ELSE CaptionStep(w, "whisper", 5)
    /\ resp' = NoResp
    /\ UNCHANGED <<dirExists, meta, files, dls, mgs, sps, dss, nextPid, lastProg, lastStatus>>

\* the stage of the pipeline a tool's percentage belongs to
StageStart(pc) == IF pc = "whisper" THEN 5 ELSE IF pc = "burn" THEN 50 ELSE 80
StageEnd(pc) == IF pc = "whisper" THEN 45 ELSE IF pc = "burn" THEN 80 ELSE 95

\* a plausible slip: the tool's percentage is added to the start of the slot unscaled
StageProgressUnscaled(pc, progress) == StageStart(pc) + progress

\* start + (progress / 100) * (end - start)
StageProgress(pc, progress) ==
    StageStart(pc) + (progress * (StageEnd(pc) - StageStart(pc))) \div 100

\* a tool reports a percentage
CpProgress(w, progress) ==
    /\ caps[w].pc \in {"whisper", "burn", "title"}
    /\ CaptionStep(w, caps[w].pc, StageProgress(caps[w].pc, progress))
    /\ resp' = NoResp
    /\ UNCHANGED <<dirExists, meta, files, dls, mgs, sps, dss, nextPid, lastProg, lastStatus>>

\* a plausible slip: a line that is full ends where its own last word ends
RECURSIVE createSubtitleFileOwnEnd(_, _, _)
createSubtitleFileOwnEnd(captions, lines, currentLine) ==
    LET pushed == Append(lines, [start |-> currentLine.start, end |-> currentLine.end,
                                 text |-> SubSeq(currentLine.text, 1, Len(currentLine.text) - 1),
                                 words |-> currentLine.words])
    IN  IF captions = <<>>
        THEN IF currentLine.wordCount > 0 THEN pushed ELSE lines
        ELSE LET caption == Head(captions)
                 started == IF currentLine.wordCount = 0
                            THEN [currentLine EXCEPT !.start = caption.start]
                            ELSE currentLine
             IN  IF \/ started.wordCount >= 5
                    \/ Len(started.text) + Len(caption.text) >= 20
                 THEN IF started.wordCount > 0
                      THEN createSubtitleFileOwnEnd(Tail(captions), pushed,
                               [start |-> caption.start, end |-> caption.end,
                                text |-> caption.text \o " ", wordCount |-> 1,
                                words |-> <<caption.text>>])
                      ELSE createSubtitleFileOwnEnd(Tail(captions), lines,
                               [started EXCEPT !.end = caption.end])
                 ELSE createSubtitleFileOwnEnd(Tail(captions), lines,
                          [started EXCEPT !.text = @ \o caption.text \o " ",
                                          !.wordCount = @ + 1,
                                          !.words = Append(@, caption.text),
                                          !.end = caption.end])

\* createSubtitleFile packs the captions into lines; this is its forEach over the captions
\* still to come, with the lines pushed and the line collected so far, and at the end the
\* push of the last line. text carries the blank appended after each word, which trim()
\* takes off when a line is pushed; words lists the captions that went into the text.
RECURSIVE createSubtitleFile(_, _, _)
createSubtitleFile(captions, lines, currentLine) ==
    LET pushed(end) == Append(lines, [start |-> currentLine.start, end |-> end,
                                      text |-> SubSeq(currentLine.text, 1, Len(currentLine.text) - 1),
                                      words |-> currentLine.words])
    IN  IF captions = <<>>
        THEN IF currentLine.wordCount > 0 THEN pushed(currentLine.end) ELSE lines
        ELSE LET caption == Head(captions)
                 started == IF currentLine.wordCount = 0
                            THEN [currentLine EXCEPT !.start = caption.start]
                            ELSE currentLine
             IN  IF \/ started.wordCount >= 5
                    \/ Len(started.text) + Len(caption.text) >= 20
                 THEN IF started.wordCount > 0
                      THEN createSubtitleFile(Tail(captions), pushed(caption.start),
                               [start |-> caption.start, end |-> caption.end,
                                text |-> caption.text \o " ", wordCount |-> 1,
                                words |-> <<caption.text>>])
                      ELSE createSubtitleFile(Tail(captions), lines,
                               [started EXCEPT !.end = caption.end])
                 ELSE createSubtitleFile(Tail(captions), lines,
                          [started EXCEPT !.text = @ \o caption.text \o " ",
                                          !.wordCount = @ + 1,
                                          !.words = Append(@, caption.text),
                                          !.end = caption.end])

\* whisper exits; its JSON is parsed and the SRT file written in the same turn
CpWhisperClose(w, code, parsed, captions) ==
    /\ caps[w].pc = "whisper"
    /\ IF code # 0
       THEN CaptionFail(w, segs, "Whisper exited with code 1: <stderr>")
       ELSE IF ~parsed
       THEN CaptionFail(w, segs, "Unexpected end of JSON input")
       ELSE /\ segs' = updateSegmentProgress(updateSegmentProgress(segs, caps[w].segmentIndex, 45),
                                             caps[w].segmentIndex, 50)
            /\ caps' = [caps EXCEPT
                           ![w].pc = "burn",
                           ![w].captions = captions,
                           ![w].srt = createSubtitleFile(captions, <<>>,
                                          [start |-> 0, end |-> 0, text |-> "",
                                           wordCount |-> 0, words |-> <<>>])]
    /\ resp' = NoResp
    /\ UNCHANGED <<dirExists, meta, files, dls, mgs, sps, dss, nextPid, lastProg, lastStatus>>

\* the ffmpeg of addCaptionsToVideo exits; the output is verified, the record read
CpBurnClose(w, code, fileOk) ==
    /\ caps[w].pc = "burn"
    /\ IF code # 0
       THEN CaptionFail(w, segs, "FFmpeg subtitle exited with code 1")
       ELSE IF ~fileOk
       THEN CaptionFail(w, segs, "Failed to create captioned video or output file is empty")
       ELSE IF ~meta.exists
       THEN CaptionFail(w, updateSegmentProgress(segs, caps[w].segmentIndex, 80), "ENOENT")
       ELSE CaptionStep(w, "ollama", 80)
    /\ resp' = NoResp
    /\ UNCHANGED <<dirExists, meta, files, dls, mgs, sps, dss, nextPid, lastProg, lastStatus>>

\* generateSubtitle settles (with a subtitle, or with null when the request fails or the
\* answer holds no title); addSubtitleToVideo or addTitleToVideo starts the overlay ffmpeg
CpOllama(w, subtitle) ==
    /\ caps[w].pc = "ollama"
    /\ caps' = [caps EXCEPT ![w].pc = "title", ![w].subtitle = subtitle]
    /\ resp' = NoResp
    /\ UNCHANGED <<dirExists, meta, files, segs, dls, mgs, sps, dss, nextPid, lastProg, lastStatus>>

\* the cleanup block lets every exception through
CleanupUncaught(removed) == ~removed

\* try { unlinkSync(...) ... } catch (cleanupErr) {}: whether an exception leaves the block
CleanupThrows(removed) == FALSE

\* the overlay ffmpeg exits; the output is verified and copied, the intermediate artifacts
\* removed (or not), the entry completed
CpTitleClose(w, code, fileOk, removed) ==
    /\ caps[w].pc = "title"
    /\ LET s95 == updateSegmentProgress(segs, caps[w].segmentIndex, 95)
           s100 == updateSegmentProgress(s95, caps[w].segmentIndex, 100)
       IN  IF code # 0
           THEN CaptionFail(w, segs, "FFmpeg title overlay exited with code 1: <stderr>")
           ELSE IF ~fileOk
           THEN CaptionFail(w, s95, "Failed to add title to video or output file is empty")
           ELSE IF CleanupThrows(removed)
           THEN CaptionFail(w, s95, "EPERM")
           ELSE IF ~s100.exists
           THEN CaptionFail(w, s100, "ENOENT")
           ELSE /\ segs' = CaptionCompleted(s100, caps[w].segmentIndex)
                /\ caps' = [caps EXCEPT ![w].pc = COMPLETED, ![w].segmentIndex = -1,
                                        ![w].srt = IF removed THEN <<>> ELSE @,
                                        ![w].leftovers = ~removed]
    /\ resp' = NoResp
    /\ UNCHANGED <<dirExists, meta, files, dls, mgs, sps, dss, nextPid, lastProg, lastStatus>>

Jobs == {"video", "audio"}
Probes == {"vprobe", "aprobe"}

Next ==
    \/ \E valid \in BOOLEAN : CreateProject(valid)
    \/ DeleteProject
    \/ \E valid \in BOOLEAN : StartDownload(valid)
    \/ \E w \in DOMAIN dls, found \in BOOLEAN : DlFfmpeg(w, found)
    \/ \E w \in DOMAIN dls, job \in Jobs, pct \in ToolPercents : DlProgress(w, job, pct)
    \/ \E w \in DOMAIN dls, job \in Jobs, code \in ExitCodes, wrote \in BOOLEAN, d \in Durations :
          DlClose(w, job, code, wrote, d)
    \/ \E w \in DOMAIN dls, probe \in Probes : DlProbeStderr(w, probe)
    \/ \E w \in DOMAIN dls, probe \in Probes, code \in ExitCodes, parsed \in BOOLEAN :
          DlProbeClose(w, probe, code, parsed)
    \/ StartMerge(MaxMerges)
    \/ \E w \in DOMAIN mgs, found \in BOOLEAN : MgFfmpeg(w, found)
    \/ \E w \in DOMAIN mgs : MgProbeStderr(w)
    \/ \E w \in DOMAIN mgs, code \in ExitCodes, parsed \in BOOLEAN : MgProbeClose(w, code, parsed)
    \/ \E w \in DOMAIN mgs, pct \in ToolPercents : MgProgress(w, pct)
    \/ \E w \in DOMAIN mgs, code \in ExitCodes, wrote \in BOOLEAN : MgClose(w, code, wrote)
    \/ StartSplit
    \/ \E w \in DOMAIN sps, found \in BOOLEAN : SpFfmpeg(w, found)
    \/ \E w \in DOMAIN sps : SpProbeStderr(w)
    \/ \E w \in DOMAIN sps, code \in ExitCodes, parsed \in BOOLEAN, d \in Durations \cup {NoNum} :
          SpProbe1Close(w, code, parsed, d)
    \/ \E w \in DOMAIN sps, code \in ExitCodes : SpSegmentClose(w, code)
    \/ \E w \in DOMAIN sps, code \in ExitCodes, parsed \in BOOLEAN, d \in Durations \cup {NoNum} :
          SpProbe2Close(w, code, parsed, d)
    \/ StartCaption(FALSE, NoNum)          \* a captioning request without a segment number

Spec == Init /\ [][Next]_vars

(***************************************************************************)
(* The segment operations, started from a project whose stages have run.   *)
(* The initial states are the states the pipeline above leaves behind when *)
(* every tool succeeds:                                                    *)
(*   - download, merge and split have run once on a clip of duration d;    *)
(*   - after that, download and merge have run again on a clip of another  *)
(*     duration, so that segments.json still lists the segments of the     *)
(*     first clip.                                                         *)
(* In these runs a tool fails by its exit code (what a tool that exits    *)
(* with 0 has printed can be read), the title service gives no subtitle    *)
(* and the cleanup of a finished pipeline succeeds.                        *)
(***************************************************************************)
AfterDownload(processId, d) ==
    DownloadedRecord(
        ProgressWrites([DownloadRecord(processId) EXCEPT !.status = DOWNLOADING],
                       << <<Key(processId, "main"), 0>>,
                          <<Key(processId, "video"), 100>>,
                          <<Key(processId, "audio"), 100>>,
                          <<Key(processId, "videoDuration"), 100>>,
                          <<Key(processId, "audioDuration"), 100>> >>),
        processId, d)

AfterMerge(m, processId, d) ==
    ProgressWrites(MergedRecord(MergingRecord(m, processId), processId, d),
                   << <<Key(processId, "duration"), 100>>, <<Key(processId, "main"), 100>> >>)

AfterSplit(m, processId, d) ==
    LET count == SegmentCount(d, SegmentDuration)
    IN  ProgressWrites(
            SegmentedRecord(
                updateProjectMetadata(SplitStartRecord(m, processId),
                                      [currentSegment |-> count, totalSegments |-> count]),
                processId, count, d),
            << <<Key(processId, "probe1"), 100>>, <<Key(processId, "probe2"), 100>>,
               <<Key(processId, "main"), 100>> >>)

SegmentedProject(d) ==
    [meta |-> AfterSplit(AfterMerge(AfterDownload(1, d), 2, d), 3, d),
     files |-> [video |-> TRUE, audio |-> d, merged |-> d, segments |-> TRUE],
     segs |-> [exists |-> TRUE, list |-> SegmentList(d, SegmentDuration)],
     nextPid |-> 4]

RemergedProject(d1, d2) ==
    [meta |-> AfterMerge(AfterDownload(4, d2), 5, d2),
     files |-> [video |-> TRUE, audio |-> d2, merged |-> d2, segments |-> TRUE],
     segs |-> [exists |-> TRUE, list |-> SegmentList(d1, SegmentDuration)],
     nextPid |-> 6]

SegProjects == {SegmentedProject(LongClip), RemergedProject(LongClip, ShortClip)}

SegInit ==
    /\ \E project \in SegProjects :
          /\ meta = project.meta
          /\ files = project.files
          /\ segs = project.segs
          /\ nextPid = project.nextPid
    /\ dirExists = TRUE
    /\ dls = EmptyMap
    /\ mgs = EmptyMap
    /\ sps = EmptyMap
    /\ caps = EmptyMap
    /\ dss = EmptyMap
    /\ resp = NoResp
    /\ lastProg = meta.progress
    /\ lastStatus = meta.status

SegmentNumbers == 1..SegmentCount(LongClip, SegmentDuration)
CaptionPercents == {20}

SegNext ==
    \/ StartSplit
    \/ \E w \in DOMAIN sps, found \in BOOLEAN : SpFfmpeg(w, found)
    \/ \E w \in DOMAIN sps : SpProbeStderr(w)
    \/ \E w \in DOMAIN sps, code \in ExitCodes, d \in Durations \cup {NoNum} :
          SpProbe1Close(w, code, TRUE, d)
    \/ \E w \in DOMAIN sps, code \in ExitCodes : SpSegmentClose(w, code)
    \/ \E w \in DOMAIN sps, code \in ExitCodes, d \in Durations \cup {NoNum} :
          SpProbe2Close(w, code, TRUE, d)
    \/ DsStart
    \/ \E r \in DOMAIN dss : DsRm(r)
    \/ \E r \in DOMAIN dss : DsUnlink(r)
    \/ \E segmentNumber \in SegmentNumbers : StartCaption(TRUE, segmentNumber)
    \/ \E w \in DOMAIN caps, found \in BOOLEAN : CpFfmpeg(w, found)
    \/ \E w \in DOMAIN caps, code \in ExitCodes : CpExtractClose(w, code)
    \/ \E w \in DOMAIN caps, progress \in CaptionPercents : CpProgress(w, progress)
    \/ \E w \in DOMAIN caps, code \in ExitCodes : CpWhisperClose(w, code, TRUE, <<>>)
    \/ \E w \in DOMAIN caps, code \in ExitCodes, fileOk \in BOOLEAN : CpBurnClose(w, code, fileOk)
    \/ \E w \in DOMAIN caps : CpOllama(w, Null)
    \/ \E w \in DOMAIN caps, code \in ExitCodes, fileOk \in BOOLEAN :
          CpTitleClose(w, code, fileOk, TRUE)

SpecSeg == SegInit /\ [][SegNext]_vars

(***************************************************************************)
(* The caption requests against every kind of project: an id that was      *)
(* never used, a project that has been merged and not split, a project     *)
(* that has been split.  The project and its segments can be deleted while *)
(* caption pipelines run.                                                  *)
(***************************************************************************)
UnusedProject ==
    [dir |-> FALSE, meta |-> NoRecord, files |-> NoFiles, segs |-> NoSegments, nextPid |-> 1]

MergedProject(d) ==
    [dir |-> TRUE,
     meta |-> AfterMerge(AfterDownload(1, d), 2, d),
     files |-> [video |-> TRUE, audio |-> d, merged |-> d, segments |-> FALSE],
     segs |-> NoSegments,
     nextPid |-> 3]

CapProjects ==
    {UnusedProject, MergedProject(LongClip), [dir |-> TRUE] @@ SegmentedProject(LongClip)}

CapInit ==
    /\ \E project \in CapProjects :
          /\ dirExists = project.dir
          /\ meta = project.meta
          /\ files = project.files
          /\ segs = project.segs
          /\ nextPid = project.nextPid
    /\ dls = EmptyMap
    /\ mgs = EmptyMap
    /\ sps = EmptyMap
    /\ caps = EmptyMap
    /\ dss = EmptyMap
    /\ resp = NoResp
    /\ lastProg = meta.progress
    /\ lastStatus = meta.status

\* the segment numbers a request may carry: those of the long clip and one beyond
CaptionRequests == 1..(SegmentCount(LongClip, SegmentDuration) + 1)

CapNext ==
    \/ DeleteProject
    \/ DsStart
    \/ \E r \in DOMAIN dss : DsRm(r)
    \/ \E r \in DOMAIN dss : DsUnlink(r)
    \/ \E given \in BOOLEAN, segmentNumber \in CaptionRequests : StartCaption(given, segmentNumber)
    \/ \E w \in DOMAIN caps, found \in BOOLEAN : CpFfmpeg(w, found)
    \/ \E w \in DOMAIN caps, code \in ExitCodes : CpExtractClose(w, code)
    \/ \E w \in DOMAIN caps, progress \in CaptionPercents \cup {100} : CpProgress(w, progress)
    \/ \E w \in DOMAIN caps, code \in ExitCodes, parsed \in BOOLEAN :
          CpWhisperClose(w, code, parsed, <<>>)
    \/ \E w \in DOMAIN caps, code \in ExitCodes, fileOk \in BOOLEAN : CpBurnClose(w, code, fileOk)
    \/ \E w \in DOMAIN caps, subtitle \in {Null, "Ocean Pollution Crisis"} : CpOllama(w, subtitle)
    \/ \E w \in DOMAIN caps, code \in ExitCodes, fileOk, removed \in BOOLEAN :
          CpTitleClose(w, code, fileOk, removed)

SpecCap == CapInit /\ [][CapNext]_vars

(***************************************************************************)
(* The split stage alone, on a merged clip of every whole duration up to   *)
(* MaxDuration.                                                            *)
(***************************************************************************)
ClipDurations == 1..MaxDuration

SplitInit ==
    /\ \E d \in ClipDurations :
          /\ meta = MergedProject(d).meta
          /\ files = MergedProject(d).files
          /\ nextPid = MergedProject(d).nextPid
    /\ dirExists = TRUE
    /\ segs = NoSegments
    /\ dls = EmptyMap
    /\ mgs = EmptyMap
    /\ sps = EmptyMap
    /\ caps = EmptyMap
    /\ dss = EmptyMap
    /\ resp = NoResp
    /\ lastProg = meta.progress
    /\ lastStatus = meta.status

SplitNext ==
    \/ StartSplit
    \/ \E w \in DOMAIN sps, found \in BOOLEAN : SpFfmpeg(w, found)
    \/ \E w \in DOMAIN sps : SpProbeStderr(w)
    \/ \E w \in DOMAIN sps, code \in ExitCodes, parsed \in BOOLEAN, d \in ClipDurations \cup {NoNum} :
          SpProbe1Close(w, code, parsed, d)
    \/ \E w \in DOMAIN sps, code \in ExitCodes : SpSegmentClose(w, code)
    \/ \E w \in DOMAIN sps, code \in ExitCodes, parsed \in BOOLEAN, d \in ClipDurations \cup {NoNum} :
          SpProbe2Close(w, code, parsed, d)

SpecSplit == SplitInit /\ [][SplitNext]_vars

(***************************************************************************)
(* Retries.  The initial states are the states a failed run leaves behind: *)
(* a download whose audio job failed, a merge and a split whose ffmpeg     *)
(* exited with an error, a caption pipeline whose first tool failed.  The  *)
(* workers of the stages that had succeeded before are still listed, as    *)
(* returned; the failed one is not, so that its stage can be started again *)
(* within the bounds.  Every request is well-formed, the clip downloaded   *)
(* is the long one, and the tools print no progress lines (the callbacks   *)
(* for those write progress values only).  A tool fails by its exit code  *)
(* (a download has left its file, and what a tool that exits with 0 has    *)
(* printed can be read), the title service gives no subtitle and the       *)
(* cleanup of a finished pipeline succeeds.                                *)
(***************************************************************************)
DownloadFailedProject ==
    [meta |-> updateProjectStatus(
                  ProgressWrites([DownloadRecord(1) EXCEPT !.status = DOWNLOADING],
                                 << <<Key(1, "main"), 0>>, <<Key(1, "video"), 100>>,
                                    <<Key(1, "audio"), 0>> >>),
                  DOWNLOAD_ERROR,
                  "Failed to download audio: yt-dlp process exited with code 1. Error: <stderr>"),
     files |-> [NoFiles EXCEPT !.video = TRUE],
     segs |-> NoSegments,
     dls |-> EmptyMap, mgs |-> EmptyMap, sps |-> EmptyMap,
     nextPid |-> 2]

MergeFailedProject(d) ==
    [meta |-> updateProjectStatus(
                  ProgressWrites(MergingRecord(AfterDownload(1, d), 2),
                                 << <<Key(2, "main"), 0>>, <<Key(2, "duration"), 100>>,
                                    <<Key(2, "main"), 25>> >>),
                  MERGING_ERROR, "FFmpeg exited with code 1"),
     files |-> [video |-> TRUE, audio |-> d, merged |-> Partial, segments |-> FALSE],
     segs |-> NoSegments,
     dls |-> (1 :> DlReturned(NewDownload)), mgs |-> EmptyMap, sps |-> EmptyMap,
     nextPid |-> 3]

SplitFailedProject(d) ==
    [meta |-> updateProjectStatus(
                  updateProjectMetadata(
                      ProgressWrites([SplitStartRecord(AfterMerge(AfterDownload(1, d), 2, d), 3)
                                          EXCEPT !.status = SEGMENTING],
                                     << <<Key(3, "main"), 0>>, <<Key(3, "probe1"), 100>> >>),
                      [currentSegment |-> 1,
                       totalSegments |-> SegmentCount(d, SegmentDuration)]),
                  SEGMENTING_ERROR, "FFmpeg segment exited with code 1"),
     files |-> [video |-> TRUE, audio |-> d, merged |-> d, segments |-> TRUE],
     segs |-> NoSegments,
     dls |-> (1 :> DlReturned(NewDownload)), mgs |-> (2 :> MgReturned(NewMerge)),
     sps |-> EmptyMap,
     nextPid |-> 4]

CaptionFailedProject(d) ==
    [meta |-> TitleColorRecord(SegmentedProject(d).meta),
     files |-> SegmentedProject(d).files,
     segs |-> CaptionFailed(
                  [SegmentedProject(d).segs EXCEPT
                      !.list[1] = CaptionStartEntry(@, SegmentedProject(d).nextPid)],
                  1, "FFmpeg extract audio exited with code 1"),
     dls |-> (1 :> DlReturned(NewDownload)), mgs |-> (2 :> MgReturned(NewMerge)),
     sps |-> (3 :> SpReturned(NewSplit)),
     nextPid |-> SegmentedProject(d).nextPid + 1]

RetryProjects ==
    {DownloadFailedProject, MergeFailedProject(LongClip), SplitFailedProject(LongClip),
     CaptionFailedProject(LongClip)}

RetryInit ==
    /\ \E project \in RetryProjects :
          /\ meta = project.meta
          /\ files = project.files
          /\ segs = project.segs
          /\ dls = project.dls
          /\ mgs = project.mgs
          /\ sps = project.sps
          /\ nextPid = project.nextPid
    /\ dirExists = TRUE
    /\ caps = EmptyMap
    /\ dss = EmptyMap
    /\ resp = NoResp
    /\ lastProg = meta.progress
    /\ lastStatus = meta.status

RetryNext ==
    \/ StartDownload(TRUE)
    \/ \E w \in DOMAIN dls, found \in BOOLEAN : DlFfmpeg(w, found)
    \/ \E w \in DOMAIN dls, job \in Jobs, code \in ExitCodes :
          DlClose(w, job, code, TRUE, LongClip)
    \/ \E w \in DOMAIN dls, probe \in Probes, code \in ExitCodes :
          DlProbeClose(w, probe, code, TRUE)
    \/ StartMerge(MaxMerges)
    \/ \E w \in DOMAIN mgs, found \in BOOLEAN : MgFfmpeg(w, found)
    \/ \E w \in DOMAIN mgs, code \in ExitCodes : MgProbeClose(w, code, TRUE)
    \/ \E w \in DOMAIN mgs, code \in ExitCodes, wrote \in BOOLEAN : MgClose(w, code, wrote)
    \/ StartSplit
    \/ \E w \in DOMAIN sps, found \in BOOLEAN : SpFfmpeg(w, found)
    \/ \E w \in DOMAIN sps, code \in ExitCodes, d \in Durations \cup {NoNum} :
          SpProbe1Close(w, code, TRUE, d)
    \/ \E w \in DOMAIN sps, code \in ExitCodes : SpSegmentClose(w, code)
    \/ \E w \in DOMAIN sps, code \in ExitCodes, d \in Durations \cup {NoNum} :
          SpProbe2Close(w, code, TRUE, d)
    \/ \E segmentNumber \in SegmentNumbers : StartCaption(TRUE, segmentNumber)
    \/ \E w \in DOMAIN caps, found \in BOOLEAN : CpFfmpeg(w, found)
    \/ \E w \in DOMAIN caps, code \in ExitCodes : CpExtractClose(w, code)
    \/ \E w \in DOMAIN caps, code \in ExitCodes : CpWhisperClose(w, code, TRUE, <<>>)
    \/ \E w \in DOMAIN caps, code \in ExitCodes, fileOk \in BOOLEAN : CpBurnClose(w, code, fileOk)
    \/ \E w \in DOMAIN caps : CpOllama(w, Null)
    \/ \E w \in DOMAIN caps, code \in ExitCodes, fileOk \in BOOLEAN :
          CpTitleClose(w, code, fileOk, TRUE)

SpecRetry == RetryInit /\ [][RetryNext]_vars

(***************************************************************************)
(* Properties of the progress store and of the stage handlers (Spec)       *)
(***************************************************************************)
RecordFields == DOMAIN NoRecord

\* C1: writers of one project that interleave their updateProjectProgress /
\* updateProjectMetadata calls lose nothing: as long as the record has not been
\* written anew (create, start download) or removed, every progress key holds the
\* value most recently written for it and the status is the one most recently written.
C1_NoLostUpdate ==
    meta.exists =>
        /\ \A k \in DOMAIN lastProg :
              k \in DOMAIN meta.progress /\ meta.progress[k] = lastProg[k]
        /\ meta.status = lastStatus

\* both download jobs and the worker have written, each under its own key
C1_Witness ==
    /\ meta.exists
    /\ meta.status = DOWNLOADING
    /\ \E w \in DOMAIN dls :
          /\ dls[w].video = "run" /\ dls[w].audio = "run"
          /\ meta.progress[Key(w, "video")] = 20
          /\ meta.progress[Key(w, "audio")] = 140
          /\ meta.progress[Key(w, "main")] = 0

ProgressValues == {0, 50, 140}

\* C2: updateProjectProgress on an existing record sets progress[processId] and leaves
\* every other entry of the map and every other field of the record as it was.
C2_ProgressFrame ==
    meta.exists =>
        \A processId \in DOMAIN meta.progress \cup {Key(nextPid, "main")}, v \in ProgressValues :
            LET after == updateProjectProgress(meta, processId, v)
            IN  /\ after.progress[processId] = v
                /\ DOMAIN after.progress = DOMAIN meta.progress \cup {processId}
                /\ \A k \in DOMAIN meta.progress \ {processId} :
                      after.progress[k] = meta.progress[k]
                /\ DOMAIN after = RecordFields
                /\ \A field \in RecordFields \ {"progress"} : after[field] = meta[field]

\* a record with several progress entries, durations, an error and all three stage ids
C2_Witness ==
    /\ meta.exists
    /\ Cardinality(DOMAIN meta.progress) >= 4
    /\ meta.error # Null
    /\ meta.audioDuration # NoNum
    /\ meta.downloadProcessId # NoPid
    /\ meta.mergeProcessId # NoPid
    /\ meta.splitProcessId # NoPid

\* C3: start merge without source/video.mp4 or source/audio.mp3, and start split
\* without merge/processed.mp4, on a project that has its record, answer 400, launch no
\* worker and leave the record as it was, whatever its status.
C3_RejectedWithoutEffect ==
    [][/\ (resp'.op = "merge" /\ dirExists /\ meta.exists /\ ~(files.video /\ files.audio > 0))
            => (resp'.code = 400 /\ UNCHANGED <<meta, files, dls, mgs, sps, nextPid>>)
       /\ (resp'.op = "split" /\ dirExists /\ meta.exists /\ files.merged = 0)
            => (resp'.code = 400 /\ UNCHANGED <<meta, files, dls, mgs, sps, nextPid>>)]_vars

\* a merge start was refused with the video in place and the audio missing
C3_Witness ==
    /\ resp.op = "merge" /\ resp.code = 400
    /\ meta.exists /\ meta.status = DOWNLOAD_ERROR
    /\ files.video /\ files.audio = 0

\* C4 as stated: start download for an id without a project answers 404, returns no
\* process id, starts no worker and creates no record.
C4_Original ==
    [][(resp'.op = "download" /\ ~dirExists)
          => (resp'.code = 404 /\ resp'.pid = NoPid /\ UNCHANGED <<dirExists, meta, dls>>)]_vars

\* C4: start download for an id without a project is refused only for missing
\* parameters (400, no effect); otherwise it creates the directory and a fresh record
\* (status initializing, downloadProcessId the returned id, progress 0 under it) and
\* starts a worker.
C4_DownloadCreates ==
    [][(resp'.op = "download" /\ ~dirExists)
          => \/ resp'.code = 400 /\ resp'.pid = NoPid /\ UNCHANGED <<dirExists, meta, dls>>
             \/ /\ resp'.code = 200
                /\ resp'.pid \in DOMAIN dls' \ DOMAIN dls
                /\ dirExists'
                /\ meta'.exists
                /\ meta'.status = INITIALIZING
                /\ meta'.currentProcess = "download"
                /\ meta'.downloadProcessId = resp'.pid
                /\ meta'.progress = (Key(resp'.pid, "main") :> 0)
                /\ dls'[resp'.pid].pc = "ffmpeg"]_vars

\* a download start was accepted for an id that had no directory
C4_Witness ==
    /\ resp.op = "download" /\ resp.code = 200 /\ ~resp.known
    /\ meta.exists /\ meta.downloadProcessId = resp.pid
    /\ resp.pid \in DOMAIN dls

InProgressOf(op) ==
    IF op = "download" THEN DOWNLOADING ELSE IF op = "merge" THEN MERGING ELSE SEGMENTING

StageProcessId(m, op) ==
    IF op = "download" THEN m.downloadProcessId
    ELSE IF op = "merge" THEN m.mergeProcessId ELSE m.splitProcessId

Stages == {"download", "merge", "split"}

\* C5 as stated: right after an accepted start the status is the stage's in-progress
\* state and the returned process id is recorded as the stage's id.
C5_Original ==
    (resp.op \in Stages /\ resp.code = 200)
        => /\ meta.status = InProgressOf(resp.op)
           /\ StageProcessId(meta, resp.op) = resp.pid

\* C5: right after an accepted start the returned process id is recorded as the
\* stage's id and the worker has not moved; the status is merging after a merge start
\* but initializing after a download or split start (the worker writes downloading /
\* segmenting in its first step).
C5_AcceptedStart ==
    (resp.op \in Stages /\ resp.code = 200)
        => /\ meta.exists
           /\ StageProcessId(meta, resp.op) = resp.pid
           /\ meta.currentProcess = resp.op
           /\ meta.progress[Key(resp.pid, "main")] = 0
           /\ meta.status = (IF resp.op = "merge" THEN MERGING ELSE INITIALIZING)
           /\ resp.op = "download" => dls[resp.pid].pc = "ffmpeg"
           /\ resp.op = "merge" => mgs[resp.pid].pc = "ffmpeg"
           /\ resp.op = "split" => sps[resp.pid].pc = "ffmpeg"

\* a split start has just been accepted
C5_Witness ==
    /\ resp.op = "split" /\ resp.code = 200
    /\ meta.status = INITIALIZING /\ meta.splitProcessId = resp.pid

NoActiveWorker ==
    /\ \A w \in DOMAIN dls : dls[w].pc = "done"
    /\ \A w \in DOMAIN mgs : mgs[w].pc = "done"
    /\ \A w \in DOMAIN sps : sps[w].pc = "done"

\* C6: whenever no stage worker of the project is running, the status is not one of
\* initializing, downloading, merging, segmenting.
C6_NoStuckStatus ==
    (NoActiveWorker /\ meta.exists) => meta.status \notin InProgressStatus

\* workers of all three stages ran concurrently and have all returned, one in error
C6_Witness ==
    /\ NoActiveWorker /\ meta.exists
    /\ DOMAIN dls # {} /\ DOMAIN mgs # {} /\ DOMAIN sps # {}
    /\ meta.status = MERGING_ERROR
    /\ meta.splitProcessId # NoPid

\* C7: the status becomes downloaded only in the last step of a worker whose two jobs
\* both succeeded; a worker one of whose jobs failed returns with download_error and an
\* error message on the record (if the record still exists); a job that ends leaves
\* the artifact of its sibling alone.
C7_DownloadJoin ==
    [][/\ (meta'.exists /\ meta'.status = DOWNLOADED /\ ~(meta.exists /\ meta.status = DOWNLOADED))
            => \E w \in DOMAIN dls :
                  /\ dls[w].pc = "probes" /\ dls[w].video = "ok" /\ dls[w].audio = "ok"
                  /\ dls'[w].pc = "done"
       /\ \A w \in DOMAIN dls :
          /\ (dls[w].pc = "jobs" /\ dls'[w].pc = "probes")
                => (dls'[w].video = "ok" /\ dls'[w].audio = "ok")
          /\ (dls[w].pc = "jobs" /\ dls'[w].pc = "done")
                => (meta.exists => /\ meta'.status = DOWNLOAD_ERROR
                                   /\ \E result \in {DownloadResult(1, FALSE),
                                                     DownloadResult(0, FALSE)} :
                                         meta'.error \in {"Failed to download video: " \o result,
                                                          "Failed to download audio: " \o result})
          /\ (dls[w].video = "run" /\ dls'[w].video # "run") => files'.audio = files.audio
          /\ (dls[w].audio = "run" /\ dls'[w].audio # "run") => files'.video = files.video
      ]_vars

\* the audio job failed after the video job had succeeded: the stage is in error and
\* the video is still there
C7_Witness ==
    /\ meta.exists /\ meta.status = DOWNLOAD_ERROR
    /\ meta.error = "Failed to download audio: Download completed but file is missing or empty"
    /\ files.video /\ files.audio = 0
    /\ \E w \in DOMAIN dls : dls[w].pc = "done" /\ meta.progress[Key(w, "video")] = 100

SuccessOf(op) ==
    IF op = "download" THEN DOWNLOADED ELSE IF op = "merge" THEN MERGED ELSE SEGMENTED

\* C13 as stated: while the status is the success state of a stage, the progress map
\* holds exactly 100 under the process id the start of that stage returned (the id
\* recorded as the stage's process id); a segment whose status is completed has
\* captioningProgress exactly 100.
C13_Original ==
    /\ meta.exists =>
          \A op \in Stages :
              meta.status = SuccessOf(op)
                  => /\ Key(StageProcessId(meta, op), "main") \in DOMAIN meta.progress
                     /\ meta.progress[Key(StageProcessId(meta, op), "main")] = 100
    /\ segs.exists =>
          \A i \in 1..Len(segs.list) :
              segs.list[i].captioningStatus = COMPLETED => segs.list[i].captioningProgress = 100

\* C14 as stated: every value of the progress map lies within 0..100, and so does the
\* captioningProgress of every segment that has one.
C14_Original ==
    /\ meta.exists => \A k \in DOMAIN meta.progress : meta.progress[k] \in 0..100
    /\ segs.exists =>
          \A i \in 1..Len(segs.list) :
              segs.list[i].captioningProgress # NoNum => segs.list[i].captioningProgress \in 0..100

\* C19 as stated: merge/processed.mp4 is never a partially written file when a start
\* of split finds it and is accepted, nor when a split worker probes it.
C19_Original ==
    [][/\ (resp'.op = "split" /\ resp'.code = 200) => files.merged # Partial
       /\ \A w \in DOMAIN sps :
             (sps[w].pc = "probe1" /\ sps'[w].pc = "segment") => files.merged # Partial
      ]_vars

\* C20 as stated: the status becomes merged only with a finished, non-empty
\* merge/processed.mp4 in place.
C20_Original ==
    [][(meta'.exists /\ meta'.status = MERGED /\ ~(meta.exists /\ meta.status = MERGED))
          => files'.merged \notin {0, Partial}]_vars

(***************************************************************************)
(* Properties of the segment operations (SpecSeg)                          *)
(***************************************************************************)
\* C8: the step in which a caption pipeline fails changes nothing but the entry of its
\* own segment, and of that entry only the status (failed) and the error message:
\* every other entry of the list, the length of the list and the project record are
\* as before.
C8_FailureIsLocal ==
    [][\A w \in DOMAIN caps :
          (caps[w].pc # FAILED /\ caps'[w].pc = FAILED)
              => /\ meta' = meta
                 /\ segs'.exists = segs.exists
                 /\ Len(segs'.list) = Len(segs.list)
                 /\ \A i \in 1..Len(segs.list) :
                       IF segs.list[i].id # caps[w].id
                       THEN segs'.list[i] = segs.list[i]
                       ELSE \/ segs'.list[i] = segs.list[i]
                            \/ /\ segs'.list[i].captioningStatus = FAILED
                               /\ segs'.list[i].captioningError # Null
                               /\ segs'.list[i].id = segs.list[i].id
                               /\ segs'.list[i].duration = segs.list[i].duration
                               /\ segs'.list[i].captioningProcessId
                                     = segs.list[i].captioningProcessId
      ]_vars

\* one pipeline has failed while the pipeline of another segment is under way
C8_Witness ==
    \E w \in DOMAIN caps, v \in DOMAIN caps :
        /\ caps[w].pc = FAILED /\ caps[v].pc = "burn" /\ caps[w].id # caps[v].id
        /\ segs.exists /\ Len(segs.list) = 2
        /\ segs.list[caps[w].id].captioningStatus = FAILED
        /\ segs.list[caps[w].id].captioningProcessId = w
        /\ segs.list[caps[v].id].captioningStatus = IN_PROGRESS
        /\ segs.list[caps[v].id].captioningProgress = 56

\* C9 as stated: a write of the caption code to segments.json (a step that changes the
\* list and belongs neither to a split worker nor to delete-segments) leaves the length
\* of the list and the ids of its entries as they were.
C9_Original ==
    [][(segs' # segs /\ sps' = sps /\ dss' = dss)
          => /\ segs'.exists = segs.exists
             /\ Len(segs'.list) = Len(segs.list)
             /\ \A i \in 1..Len(segs.list) : segs'.list[i].id = segs.list[i].id]_vars

\* C10 as stated: no two caption pipelines of one segment are under way together.
C10_Original ==
    \A w \in DOMAIN caps, v \in DOMAIN caps :
        (w # v /\ CaptionActive(caps[w]) /\ CaptionActive(caps[v])) => caps[w].id # caps[v].id

\* C16: start split on a project whose status is segmented is accepted and removes
\* nothing (the artifacts and segments.json are as before); in the step in which a split
\* run completes, segments.json becomes the list generated by that run (ids 1..N, N the
\* segment count of the duration the run probed, no entry with a captioning status,
\* progress, process id or error), the record's segment count becomes N and the status
\* segmented.
C16_ResplitRegenerates ==
    [][/\ (resp'.op = "split" /\ dirExists /\ meta.exists /\ meta.status = SEGMENTED)
            => /\ resp'.code = 200
               /\ resp'.pid \in DOMAIN sps' \ DOMAIN sps
               /\ files' = files /\ segs' = segs
       /\ \A w \in DOMAIN sps :
             (sps[w].pc = "probe2" /\ sps'[w].pc = "done" /\ meta'.status # SEGMENTING_ERROR)
                 => LET N == Len(segs'.list)
                        D == sps[w].videoDuration
                    IN  /\ segs'.exists
                        /\ (N - 1) * SegmentDuration < D /\ D <= N * SegmentDuration
                        /\ \A i \in 1..N :
                              /\ segs'.list[i].id = i
                              /\ segs'.list[i].captioningStatus = Null
                              /\ segs'.list[i].captioningProgress = NoNum
                              /\ segs'.list[i].captioningProcessId = NoPid
                              /\ segs'.list[i].captioningError = Null
                        /\ meta'.segments = N
                        /\ meta'.status = SEGMENTED
                        /\ meta'.splitProcessId = w
      ]_vars

\* a segmented project one of whose segments had been captioned has been split again
C16_Witness ==
    /\ meta.status = SEGMENTED /\ meta.mergeProcessId = 2 /\ meta.segments = 2
    /\ \E w \in DOMAIN sps : sps[w].pc = "done" /\ meta.splitProcessId = w
    /\ \E c \in DOMAIN caps : caps[c].pc = COMPLETED
    /\ segs.exists /\ Len(segs.list) = 2
    /\ \A i \in 1..Len(segs.list) : segs.list[i].captioningStatus = Null

(***************************************************************************)
(* Properties of the caption requests (SpecCap)                            *)
(***************************************************************************)
Listed(s, id) == s.exists /\ \E i \in 1..Len(s.list) : s.list[i].id = id

\* C11: start captioning is refused, with segments.json, the record, the artifacts and
\* the set of pipelines as they were, with 400 when the request has no segment number,
\* 404 when the project directory does not exist, 400 when segments.json does not exist
\* and 404 when no entry of the list has the requested id; it is accepted only with a
\* segment number whose entry is in an existing list.
C11_CaptionStartGuard ==
    [][resp'.op = "caption" =>
          LET rejected(code) ==
                  /\ resp'.code = code /\ resp'.pid = NoPid
                  /\ UNCHANGED <<dirExists, meta, files, segs, caps, nextPid>>
          IN  /\ ~resp'.given => rejected(400)
              /\ (resp'.given /\ ~dirExists) => rejected(404)
              /\ (resp'.given /\ dirExists /\ ~segs.exists) => rejected(400)
              /\ (resp'.given /\ dirExists /\ segs.exists
                     /\ ~Listed(segs, resp'.segmentNumber)) => rejected(404)
              /\ resp'.code = 200
                    => (resp'.given /\ dirExists /\ Listed(segs, resp'.segmentNumber))
      ]_vars

\* a request for a segment beyond the list was refused while a pipeline was running
C11_Witness ==
    /\ resp.op = "caption" /\ resp.code = 404 /\ resp.known
    /\ segs.exists /\ Len(segs.list) = 2 /\ resp.segmentNumber = 3
    /\ \E w \in DOMAIN caps : caps[w].pc = "whisper"

RestartableStatus == {IN_PROGRESS, FAILED, COMPLETED}

\* C12: start captioning for a listed segment whose status is in-progress, failed or
\* completed is accepted: it returns a process id that no pipeline had, starts a
\* pipeline under it, and rewrites the entry with that process id, status in-progress
\* and progress 0, every other field and every other entry being as before.
C12_RestartAccepted ==
    [][\A i \in 1..Len(segs.list) :
          (/\ resp'.op = "caption" /\ resp'.given /\ dirExists /\ segs.exists
           /\ segs.list[i].id = resp'.segmentNumber
           /\ segs.list[i].captioningStatus \in RestartableStatus)
             => /\ resp'.code = 200
                /\ resp'.pid # NoPid
                /\ resp'.pid \notin DOMAIN caps
                /\ resp'.pid \in DOMAIN caps'
                /\ caps'[resp'.pid].id = segs.list[i].id
                /\ segs'.exists /\ Len(segs'.list) = Len(segs.list)
                /\ segs'.list[i] = [segs.list[i] EXCEPT !.captioningStatus = IN_PROGRESS,
                                                        !.captioningProcessId = resp'.pid,
                                                        !.captioningProgress = 0]
                /\ \A j \in 1..Len(segs.list) : j # i => segs'.list[j] = segs.list[j]
      ]_vars

\* a segment whose pipeline had reached the burn-in stage was started again
C12_Witness ==
    /\ resp.op = "caption" /\ resp.code = 200
    /\ segs.exists
    /\ \E v \in DOMAIN caps :
          /\ v # resp.pid /\ caps[v].id = resp.segmentNumber /\ caps[v].pc = "burn"
          /\ segs.list[caps[v].id].captioningProcessId = resp.pid
          /\ segs.list[caps[v].id].captioningStatus = IN_PROGRESS
          /\ segs.list[caps[v].id].captioningProgress = 0

(***************************************************************************)
(* Properties of the split stage (SpecSplit)                               *)
(***************************************************************************)
\* C15: the list a split writes for a merged clip of duration D > 0 has N entries,
\* N the least integer with D <= N * SegmentDuration, their ids are 1..N in order, each
\* has duration SegmentDuration except the last, whose duration is
\* D - (N - 1) * SegmentDuration (so the durations add up to D).
C15_SegmentList ==
    segs.exists =>
        LET D == files.merged
            L == SegmentDuration
            N == Len(segs.list)
        IN  /\ D > 0
            /\ (N - 1) * L < D /\ D <= N * L
            /\ \A i \in 1..N : segs.list[i].id = i
            /\ \A i \in 1..(N - 1) : segs.list[i].duration = L
            /\ segs.list[N].duration = D - (N - 1) * L

\* a clip of 125 s has been split into segments of 60, 60 and 5 s
C15_Witness ==
    /\ segs.exists /\ files.merged = 125
    /\ Len(segs.list) = 3
    /\ segs.list[1].duration = 60 /\ segs.list[2].duration = 60 /\ segs.list[3].duration = 5
    /\ meta.status = SEGMENTED

(***************************************************************************)
(* Properties of retries (SpecRetry)                                       *)
(***************************************************************************)
ErrorOf(op) ==
    IF op = "download" THEN DOWNLOAD_ERROR
    ELSE IF op = "merge" THEN MERGING_ERROR ELSE SEGMENTING_ERROR

\* the artifacts the start handler of a stage looks for
StartPrecondition(op, f) ==
    IF op = "download" THEN TRUE
    ELSE IF op = "merge" THEN MergeSourcesExist(f) ELSE MergedExists(f)

C18_Original ==
    (meta.exists /\ meta.error # Null) => \E op \in Stages : meta.status = ErrorOf(op)

\* C21: a tool that exits with a non-zero code ends the run it belongs to in error.
\* A download job that exits so is recorded as failed and its worker returns, at once
\* or when the sibling job ends, with download_error; a failing ffprobe or ffmpeg of
\* download, merge or split makes the worker return with the error status of its stage
\* and an error message (whenever the record exists).  A failing tool of a caption
\* pipeline ends the pipeline as failed, leaves the project record alone and marks the
\* listed entry of its segment failed with an error message.
C21_NonZeroExitFails ==
    [][/\ \A w \in DOMAIN dls :
             /\ \A job \in Jobs, wrote \in BOOLEAN, d \in Durations :
                   DlClose(w, job, 1, wrote, d)
                      => \/ dls'[w].pc = "jobs" /\ dls'[w][job] = DownloadResult(1, FALSE)
                         \/ /\ dls'[w].pc = "done"
                            /\ meta.exists => (meta'.status = DOWNLOAD_ERROR /\ meta'.error # Null)
             /\ (dls[w].pc = "jobs" /\ DownloadResult(1, FALSE) \in {dls[w].video, dls[w].audio}
                    /\ dls'[w].pc # "jobs")
                   => /\ dls'[w].pc = "done"
                      /\ meta.exists => (meta'.status = DOWNLOAD_ERROR /\ meta'.error # Null)
             /\ \A probe \in Probes, parsed \in BOOLEAN :
                   (dls[w].pc = "probes" /\ DlProbeClose(w, probe, 1, parsed))
                      => /\ dls'[w].pc = "done"
                         /\ meta.exists => (meta'.status = DOWNLOAD_ERROR /\ meta'.error # Null)
       /\ \A w \in DOMAIN mgs :
             (\/ \E parsed \in BOOLEAN : MgProbeClose(w, 1, parsed)
              \/ \E wrote \in BOOLEAN : MgClose(w, 1, wrote))
                => /\ mgs'[w].pc = "done"
                   /\ meta.exists => (meta'.status = MERGING_ERROR /\ meta'.error # Null)
       /\ \A w \in DOMAIN sps :
             (\/ \E parsed \in BOOLEAN : SpProbe1Close(w, 1, parsed, NoNum)
              \/ SpSegmentClose(w, 1)
              \/ \E parsed \in BOOLEAN : SpProbe2Close(w, 1, parsed, NoNum))
                => /\ sps'[w].pc = "done"
                   /\ meta.exists => (meta'.status = SEGMENTING_ERROR /\ meta'.error # Null)
       /\ \A w \in DOMAIN caps :
             (\/ CpExtractClose(w, 1)
              \/ \E parsed \in BOOLEAN : CpWhisperClose(w, 1, parsed, <<>>)
              \/ \E fileOk \in BOOLEAN : CpBurnClose(w, 1, fileOk)
              \/ \E fileOk, removed \in BOOLEAN : CpTitleClose(w, 1, fileOk, removed))
                => /\ caps'[w].pc = FAILED
                   /\ meta' = meta
                   /\ \A i \in 1..Len(segs.list) :
                         (segs.exists /\ segs.list[i].id = caps[w].id)
                            => /\ segs'.list[i].captioningStatus = FAILED
                               /\ segs'.list[i].captioningError # Null
      ]_vars

\* the speech-to-text tool of a pipeline has failed after the retried split succeeded
C21_Witness ==
    /\ meta.status = SEGMENTED /\ meta.splitProcessId = 4
    /\ segs.exists
    /\ \E w \in DOMAIN caps :
          /\ caps[w].pc = FAILED
          /\ segs.list[caps[w].id].captioningStatus = FAILED
          /\ segs.list[caps[w].id].captioningError = "Whisper exited with code 1: <stderr>"
          /\ segs.list[caps[w].id].captioningProgress = 5

\* C22: a best-effort step never fails the segment. When generateSubtitle settles with
\* nothing the pipeline goes on to the overlay step with the entry untouched, and that
\* title-only run completes like any other; when the overlay's output is in place and the
\* removal of the intermediate artifacts fails, the pipeline still ends completed and the
\* entry it wrote is completed at 100 per cent. (A list that is gone by then has no entry
\* to complete.)
C22_BestEffortSteps ==
    [][\A w \in DOMAIN caps :
          /\ CpOllama(w, Null)
                => /\ caps'[w].pc = "title"
                   /\ caps'[w].subtitle = Null
                   /\ segs' = segs
          /\ \A removed \in BOOLEAN :
                (CpTitleClose(w, 0, TRUE, removed) /\ segs.exists)
                   => /\ caps'[w].pc = COMPLETED
                      /\ caps'[w].leftovers = ~removed
                      /\ segs'.exists
                      /\ caps[w].segmentIndex # -1
                            => /\ segs'.list[caps[w].segmentIndex + 1].captioningStatus = COMPLETED
                               /\ segs'.list[caps[w].segmentIndex + 1].captioningProgress = 100
      ]_vars

\* a pipeline that got no subtitle and could not remove its artifacts has completed its segment
C22_Witness ==
    /\ segs.exists
    /\ \E w \in DOMAIN caps :
          /\ caps[w].pc = COMPLETED
          /\ caps[w].subtitle = Null
          /\ caps[w].leftovers
          /\ \E i \in 1..Len(segs.list) :
                /\ segs.list[i].id = caps[w].id
                /\ segs.list[i].captioningStatus = COMPLETED
                /\ segs.list[i].captioningProgress = 100

\* C23: a request that fails validation touches nothing. Creating a project without a
\* video or audio source, starting a download without a video or audio parameter and
\* starting captioning without a segment number are each answered with 400, and the
\* project directory, the Project record, the files, the segment list and the set of
\* workers are what they were before the request.
C23_ValidationTouchesNothing ==
    [][(\/ CreateProject(FALSE)
        \/ StartDownload(FALSE)
        \/ \E segmentNumber \in {NoNum} \cup (1..3) : StartCaption(FALSE, segmentNumber))
          => /\ resp'.code = 400
             /\ resp'.pid = NoPid
             /\ UNCHANGED <<dirExists, meta, files, segs, dls, mgs, sps, caps, dss, nextPid>>
      ]_vars

\* a captioning request without a segment number was refused on a project that is segmented
C23_Witness ==
    /\ resp.op = "caption" /\ resp.code = 400 /\ ~resp.given
    /\ dirExists /\ meta.exists /\ meta.status = SEGMENTED
    /\ segs.exists /\ Len(segs.list) > 0

\* C24: the progress store does nothing for a project that has no record. While the
\* record is absent (never written, or deleted under workers that are still running),
\* updateProjectProgress, updateProjectMetadata and updateProjectStatus leave it absent
\* (the store their call returns is the store they were given, which is the case in which
\* they return false), and the only steps after which a record exists are an accepted
\* create and an accepted download start, which write the file themselves.
C24_MissingRecordNoOp ==
    [][~meta.exists
          => /\ \A processId \in 1..nextPid, progressValue \in ToolPercents :
                   /\ updateProjectProgress(meta, Key(processId, "main"), progressValue) = meta
                   /\ ~updateProjectProgress(meta, Key(processId, "main"), progressValue).exists
             /\ updateProjectMetadata(meta, [totalDuration |-> LongClip]) = meta
             /\ updateProjectStatus(meta, DOWNLOAD_ERROR, "FFmpeg tools not found") = meta
             /\ ~updateProjectStatus(meta, MERGED, Null).exists
             /\ meta'.exists => (resp'.code = 200 /\ resp'.op \in {"create", "download"})
      ]_vars

\* the record is gone and the workers started on it have all run to their end since
C24_Witness ==
    /\ ~meta.exists /\ nextPid > 2
    /\ resp = NoResp
    /\ DOMAIN mgs # {}
    /\ \A w \in DOMAIN dls : dls[w].pc = "done"
    /\ \A w \in DOMAIN mgs : mgs[w].pc = "done"
    /\ \A w \in DOMAIN sps : sps[w].pc = "done"

(***************************************************************************)
(* The progress the client reports (useProcessProgress).  The hook fetches *)
(* the Project record and computes the percentages it shows from it.  The  *)
(* initial states are records of every shape the computation tells apart:  *)
(* a current stage or none, each stage's process id recorded or not, and    *)
(* any part of the keys of those processes present in the progress map.     *)
(* A record without a progress field and one whose map has no entry are    *)
(* both the empty map here.                                                *)
(***************************************************************************)
\* a plausible slip: the main percentage is always the largest entry
calculateProgressMax(m) ==
    LET values == {m.progress[k] : k \in DOMAIN m.progress}
        entry(id, tag) == IF Key(id, tag) \in DOMAIN m.progress
                          THEN m.progress[Key(id, tag)] ELSE NoNum
    IN  [main |-> IF values = {} THEN 0 ELSE CHOOSE v \in values : \A u \in values : u <= v,
         videoDownload |-> IF m.currentProcess = "download"
                           THEN entry(m.downloadProcessId, "video") ELSE NoNum,
         audioDownload |-> IF m.currentProcess = "download"
                           THEN entry(m.downloadProcessId, "audio") ELSE NoNum]

\* the fields main, videoDownload and audioDownload of the result; NoNum is a field left out
calculateProgress(m) ==
    LET processId ==
            IF m.currentProcess = "download" /\ m.downloadProcessId # NoPid
            THEN m.downloadProcessId
            ELSE IF m.currentProcess = "merge" /\ m.mergeProcessId # NoPid
            THEN m.mergeProcessId
            ELSE IF m.currentProcess = "split" /\ m.splitProcessId # NoPid
            THEN m.splitProcessId
            ELSE NoPid
        values == {m.progress[k] : k \in DOMAIN m.progress}
        entry(id, tag) == IF Key(id, tag) \in DOMAIN m.progress
                          THEN m.progress[Key(id, tag)] ELSE NoNum
    IN  IF ~m.exists \/ DOMAIN m.progress = {}
        THEN [main |-> 0, videoDownload |-> NoNum, audioDownload |-> NoNum]
        ELSE [main |-> IF processId # NoPid /\ Key(processId, "main") \in DOMAIN m.progress
                       THEN m.progress[Key(processId, "main")]
                       ELSE IF values = {} THEN 0
                       ELSE CHOOSE v \in values : \A u \in values : u <= v,
              videoDownload |-> IF m.currentProcess = "download"
                                THEN entry(m.downloadProcessId, "video") ELSE NoNum,
              audioDownload |-> IF m.currentProcess = "download"
                                THEN entry(m.downloadProcessId, "audio") ELSE NoNum]

\* the hook fetches the record and stores what calculateProgress makes of it
fetchMetadata ==
    /\ meta.exists
    /\ resp' = [op |-> "metadata", code |-> 200, pid |-> NoPid, known |-> dirExists,
                progress |-> calculateProgress(meta)]
    /\ UNCHANGED <<dirExists, meta, files, segs, dls, mgs, sps, caps, dss, nextPid,
                   lastProg, lastStatus>>

ProgressInit ==
    /\ \E currentProcess \in {Null} \cup Stages,
          downloadProcessId \in {NoPid, 1}, mergeProcessId \in {NoPid, 2},
          splitProcessId \in {NoPid, 3},
          keys \in SUBSET {Key(1, "main"), Key(1, "video"), Key(1, "audio"),
                           Key(2, "main"), Key(3, "main")} :
             \E progress \in [keys -> {0, 20, 100}] :
                meta = [NoRecord EXCEPT !.exists = TRUE, !.status = INITIALIZED,
                                        !.currentProcess = currentProcess,
                                        !.downloadProcessId = downloadProcessId,
                                        !.mergeProcessId = mergeProcessId,
                                        !.splitProcessId = splitProcessId,
                                        !.progress = progress]
    /\ dirExists = TRUE
    /\ files = NoFiles
    /\ segs = NoSegments
    /\ dls = EmptyMap
    /\ mgs = EmptyMap
    /\ sps = EmptyMap
    /\ caps = EmptyMap
    /\ dss = EmptyMap
    /\ nextPid = 4
    /\ resp = NoResp
    /\ lastProg = meta.progress
    /\ lastStatus = meta.status

ProgressNext == fetchMetadata

SpecProgress == ProgressInit /\ [][ProgressNext]_vars

\* C25: the main percentage the client reports is the entry of the current stage's process
\* id when the map has one; otherwise it is the largest entry of the map, and 0 for a map
\* without entries. The video and audio percentages are reported exactly when the current
\* stage is the download and the map has the entry of that download's video or audio job,
\* and are then that entry.
C25_ReportedProgress ==
    resp.op = "metadata"
       => LET primary == IF meta.currentProcess \in Stages
                         THEN Key(StageProcessId(meta, meta.currentProcess), "main")
                         ELSE Key(NoPid, "main")
              reported == resp.progress
          IN  /\ primary \in DOMAIN meta.progress
                    => reported.main = meta.progress[primary]
              /\ primary \notin DOMAIN meta.progress
                    => /\ \A k \in DOMAIN meta.progress : meta.progress[k] <= reported.main
                       /\ DOMAIN meta.progress # {}
                             => \E k \in DOMAIN meta.progress : meta.progress[k] = reported.main
                       /\ DOMAIN meta.progress = {} => reported.main = 0
              /\ \A job \in Jobs :
                    LET shown == IF job = "video" THEN reported.videoDownload
                                 ELSE reported.audioDownload
                        key == Key(meta.downloadProcessId, job)
                    IN  IF meta.currentProcess = "download" /\ key \in DOMAIN meta.progress
                        THEN shown = meta.progress[key]
                        ELSE shown = NoNum

\* during a merge whose own entry is missing, the largest entry (the download's) is reported
C25_Witness ==
    /\ resp.op = "metadata"
    /\ meta.currentProcess = "merge" /\ meta.mergeProcessId = 2
    /\ Key(2, "main") \notin DOMAIN meta.progress
    /\ DOMAIN meta.progress = {Key(1, "main"), Key(1, "video"), Key(3, "main")}
    /\ meta.progress[Key(1, "main")] = 100 /\ meta.progress[Key(1, "video")] = 20
    /\ resp.progress.main = 100
    /\ resp.progress.videoDownload = NoNum

\* C26: the progress of a segment is written slot by slot. The phases of the pipeline have
\* the slots 0-5 (audio extraction), 5-45 (transcription), 45-50 (subtitle file), 50-80
\* (burn-in), 80-95 (overlay) and 95-100 (cleanup). A tool that reports the percentage p,
\* 0 <= p <= 100, in a phase with the slot s-e has s + (p / 100) * (e - s) written, which
\* lies in the slot, and the end of a phase writes the start of the next slot, so that the
\* boundaries are written in the order 0, 5, 45, 50, 80, 95, 100. (A write is made only
\* while the entry the pipeline found at its start is still in progress.)
C26_ProgressSlots ==
    [][\A w \in DOMAIN caps :
          LET i == caps[w].segmentIndex + 1
              writable == /\ segs.exists /\ i >= 1 /\ i <= Len(segs.list)
                          /\ ~IsNull(segs.list[i])
                          /\ segs.list[i].captioningStatus = IN_PROGRESS
              written(v) == writable => segs'.list[i].captioningProgress = v
              s == IF caps[w].pc = "whisper" THEN 5 ELSE IF caps[w].pc = "burn" THEN 50 ELSE 80
              e == IF caps[w].pc = "whisper" THEN 45 ELSE IF caps[w].pc = "burn" THEN 80 ELSE 95
          IN  /\ \A p \in CaptionPercents \cup {100} :
                    CpProgress(w, p)
                       => /\ written(s + (p * (e - s)) \div 100)
                          /\ writable => /\ s <= segs'.list[i].captioningProgress
                                         /\ segs'.list[i].captioningProgress <= e
              /\ (CpFfmpeg(w, TRUE) /\ caps'[w].pc = "extract")
                    => segs'.list[caps'[w].segmentIndex + 1].captioningProgress
                          = (IF segs.list[caps'[w].segmentIndex + 1].captioningStatus = IN_PROGRESS
                             THEN 0
                             ELSE segs.list[caps'[w].segmentIndex + 1].captioningProgress)
              /\ CpExtractClose(w, 0) => written(5) /\ caps'[w].pc = "whisper"
              /\ CpWhisperClose(w, 0, TRUE, <<>>) => written(50) /\ caps'[w].pc = "burn"
              /\ (CpBurnClose(w, 0, TRUE) /\ meta.exists) => written(80) /\ caps'[w].pc = "ollama"
              /\ \A removed \in BOOLEAN :
                    (CpTitleClose(w, 0, TRUE, removed) /\ segs.exists)
                       => /\ caps[w].segmentIndex # -1
                             => segs'.list[i].captioningProgress = 100
                          /\ caps'[w].pc = COMPLETED
      ]_vars

\* the burn-in tool has reported 20 per cent and 56 is written for the segment
C26_Witness ==
    /\ segs.exists
    /\ \E w \in DOMAIN caps :
          /\ caps[w].pc = "burn"
          /\ caps[w].segmentIndex # -1
          /\ segs.list[caps[w].segmentIndex + 1].captioningStatus = IN_PROGRESS
          /\ segs.list[caps[w].segmentIndex + 1].captioningProcessId = w
          /\ segs.list[caps[w].segmentIndex + 1].captioningProgress = 56

(***************************************************************************)
(* The subtitle file.  A pipeline is waiting for the speech-to-text tool   *)
(* on the first segment of a segmented project; the tool exits and what it *)
(* heard is packed into the lines of the SRT file.  The transcriptions are *)
(*   - up to MaxWords words, one a second, of one, eight or twenty-one     *)
(*     characters each, and                                                *)
(*   - up to four words of eight or twenty-one characters whose start      *)
(*     times are any of 0..2 and which last one second or three (so that   *)
(*     a word may still be on when the next one starts).                   *)
(***************************************************************************)
SrtCaptions(n) ==
    {[k \in 1..n |-> [start |-> k - 1, end |-> k, text |-> text[k]]] :
        text \in [1..n -> {"a", "subtitle", "incomprehensibilities"}]}
    \cup
    IF n > 4 THEN {}
    ELSE {[k \in 1..n |-> [start |-> start[k], end |-> start[k] + length[k], text |-> text[k]]] :
             start \in [1..n -> 0..2], length \in [1..n -> {1, 3}],
             text \in [1..n -> {"subtitle", "incomprehensibilities"}]}

SrtInit ==
    /\ LET project == SegmentedProject(LongClip)
           processId == project.nextPid
       IN  /\ meta = TitleColorRecord(project.meta)
           /\ files = project.files
           /\ segs = updateSegmentProgress(
                         [project.segs EXCEPT !.list[1] = CaptionStartEntry(@, processId)], 0, 5)
           /\ caps = (processId :> [NewCaption(project.segs.list[1]) EXCEPT
                                       !.pc = "whisper", !.segmentIndex = 0])
           /\ nextPid = processId + 1
    /\ dirExists = TRUE
    /\ dls = EmptyMap
    /\ mgs = EmptyMap
    /\ sps = EmptyMap
    /\ dss = EmptyMap
    /\ resp = NoResp
    /\ lastProg = meta.progress
    /\ lastStatus = meta.status

\* (only a pipeline that waits for the tool is offered its transcriptions)
SrtNext ==
    \E w \in {v \in DOMAIN caps : caps[v].pc = "whisper"} :
       \E code \in ExitCodes, parsed \in BOOLEAN, n \in 0..MaxWords :
          \E captions \in SrtCaptions(n) : CpWhisperClose(w, code, parsed, captions)

SpecSrt == SrtInit /\ [][SrtNext]_vars

\* C27, as stated: no line of a subtitle file holds more than five words or more than
\* twenty characters. (A word that is longer than that and comes after another word opens
\* a line of its own, whatever its length.)
C27_Original ==
    \A w \in DOMAIN caps :
       \A i \in 1..Len(caps[w].srt) :
          /\ Len(caps[w].srt[i].words) <= 5
          /\ Len(caps[w].srt[i].text) <= 20

\* C28: for words whose start times do not decrease, every line of the subtitle file but
\* the last ends when the next line starts, the last line ends when the last word ends,
\* and the start times of the lines do not decrease; so no line starts before the line
\* before it has ended.
C28_LineTimes ==
    \A w \in DOMAIN caps :
       LET captions == caps[w].captions
           lines == caps[w].srt
       IN  (\A k \in 1..(Len(captions) - 1) : captions[k].start <= captions[k + 1].start)
              => /\ \A i \in 1..(Len(lines) - 1) :
                       /\ lines[i].end = lines[i + 1].start
                       /\ lines[i].start <= lines[i + 1].start
                 /\ lines # <<>> => lines[Len(lines)].end = captions[Len(captions)].end
                 /\ \A i \in 1..Len(lines) :
                       i > 1 => lines[i - 1].end <= lines[i].start

\* three lines from four words, the second of which is still on when the third starts
C28_Witness ==
    \E w \in DOMAIN caps :
       /\ caps[w].pc = "burn"
       /\ Len(caps[w].captions) = 4
       /\ \A k \in 1..3 : caps[w].captions[k].start <= caps[w].captions[k + 1].start
       /\ caps[w].captions[2].end > caps[w].captions[3].start
       /\ caps[w].captions[1].start < caps[w].captions[4].start
       /\ Len(caps[w].srt) = 3
       /\ caps[w].srt[2].end = caps[w].srt[3].start
       /\ caps[w].srt[3].end = caps[w].captions[4].end

(***************************************************************************)
(* Runs that end.  The project is created and never deleted, and neither   *)
(* are its segments; the stages and the caption pipelines are started as   *)
(* the bounds allow.  Every external process exits and every request a     *)
(* worker waits for is answered: a worker whose next step is the exit of   *)
(* its tool (or the answer of the tool lookup or of the title service)     *)
(* does take that step.  The steps are finitely many in a behaviour, so    *)
(* weak fairness of their disjunction says as much for each of them.  The *)
(* clip is the long one and it is its first segment that is captioned,    *)
(* once and again; the caption tools may print progress lines as long as   *)
(* they run, the tools of the stages print none.                           *)
(***************************************************************************)
ToolExits ==
    \/ \E w \in DOMAIN dls, found \in BOOLEAN : DlFfmpeg(w, found)
    \/ \E w \in DOMAIN dls, job \in Jobs, code \in ExitCodes, wrote \in BOOLEAN :
          DlClose(w, job, code, wrote, LongClip)
    \/ \E w \in DOMAIN dls, probe \in Probes, code \in ExitCodes, parsed \in BOOLEAN :
          DlProbeClose(w, probe, code, parsed)
    \/ \E w \in DOMAIN mgs, found \in BOOLEAN : MgFfmpeg(w, found)
    \/ \E w \in DOMAIN mgs, code \in ExitCodes, parsed \in BOOLEAN : MgProbeClose(w, code, parsed)
    \/ \E w \in DOMAIN mgs, code \in ExitCodes, wrote \in BOOLEAN : MgClose(w, code, wrote)
    \/ \E w \in DOMAIN sps, found \in BOOLEAN : SpFfmpeg(w, found)
    \/ \E w \in DOMAIN sps, code \in ExitCodes, parsed \in BOOLEAN :
          SpProbe1Close(w, code, parsed, LongClip)
    \/ \E w \in DOMAIN sps, code \in ExitCodes : SpSegmentClose(w, code)
    \/ \E w \in DOMAIN sps, code \in ExitCodes, parsed \in BOOLEAN :
          SpProbe2Close(w, code, parsed, LongClip)
    \/ \E w \in DOMAIN caps, found \in BOOLEAN : CpFfmpeg(w, found)
    \/ \E w \in DOMAIN caps, code \in ExitCodes : CpExtractClose(w, code)
    \/ \E w \in DOMAIN caps, code \in ExitCodes, parsed \in BOOLEAN :
          CpWhisperClose(w, code, parsed, <<>>)
    \/ \E w \in DOMAIN caps, code \in ExitCodes, fileOk \in BOOLEAN : CpBurnClose(w, code, fileOk)
    \/ \E w \in DOMAIN caps : CpOllama(w, Null)
    \/ \E w \in DOMAIN caps, code \in ExitCodes, fileOk \in BOOLEAN :
          CpTitleClose(w, code, fileOk, TRUE)

LiveNext ==
    \/ CreateProject(TRUE)
    \/ StartDownload(TRUE)
    \/ StartMerge(MaxMerges)
    \/ StartSplit
    \/ StartCaption(TRUE, 1)
    \/ \E w \in DOMAIN caps, progress \in CaptionPercents : CpProgress(w, progress)
    \/ ToolExits

SpecLive == Init /\ [][LiveNext]_vars /\ WF_vars(ToolExits)

\* C29: no run stays in progress for ever. When every tool exits and the project is not
\* deleted, a project whose status is that of a running stage comes to the status of a
\* finished or failed stage, and a segment that a caption start has put in progress comes
\* to be completed or failed (unless the list has been written anew by then).
C29_EveryRunEnds ==
    /\ (meta.exists /\ meta.status \in {INITIALIZING, DOWNLOADING, MERGING, SEGMENTING})
          ~> (meta.status \in {DOWNLOADED, DOWNLOAD_ERROR, MERGED, MERGING_ERROR,
                               SEGMENTED, SEGMENTING_ERROR})
    /\ (segs.exists /\ segs.list # <<>> /\ segs.list[1].captioningStatus = IN_PROGRESS)
          ~> (\/ ~segs.exists \/ segs.list = <<>>
              \/ segs.list[1].captioningStatus \in {COMPLETED, FAILED}
              \/ segs.list[1].captioningProcessId = NoPid)

\* every stage has run, both caption pipelines of a segment have ended and the segment is completed
C29_Witness ==
    /\ meta.status = SEGMENTED
    /\ segs.exists
    /\ Cardinality(DOMAIN caps) = MaxCaptions
    /\ \A w \in DOMAIN caps : caps[w].pc \in {COMPLETED, FAILED}
    /\ \E i \in 1..Len(segs.list) : segs.list[i].captioningStatus = COMPLETED

\* C30, as stated: when a tool has exited with a non-zero code, the error message recorded
\* on the Project record or on the segment contains what the tool wrote to its error
\* stream, for the tools of the download, the merge, the split and the caption pipeline.
\* (The messages made for the merge, the split, the audio extraction and the burn-in name
\* the exit code only.)
C30_Original ==
    LET Contains(message, part) ==
            \E i \in 1..(Len(message) - Len(part) + 1) :
               SubSeq(message, i, i + Len(part) - 1) = part
    IN  /\ (/\ meta.exists
            /\ meta.status \in {DOWNLOAD_ERROR, MERGING_ERROR, SEGMENTING_ERROR}
            /\ Contains(meta.error, "exited with code"))
              => Contains(meta.error, "<stderr>")
        /\ segs.exists
              => \A i \in 1..Len(segs.list) :
                    (/\ ~IsNull(segs.list[i])
                     /\ segs.list[i].captioningStatus = FAILED
                     /\ Contains(segs.list[i].captioningError, "exited with code"))
                       => Contains(segs.list[i].captioningError, "<stderr>")

(***************************************************************************)
(* The trim range of a download.  The download request carries a start and *)
(* an end offset for each track (0 for an offset that is not given); the   *)
(* handler stores them on the record it writes and the worker reads them   *)
(* back.  The initial states are the states the handler leaves for a       *)
(* request with any offsets up to MaxOffset; the requests of the other     *)
(* specifications name no offset.                                          *)
(***************************************************************************)
TrimInit ==
    /\ \E startTime \in 0..MaxOffset, endTime \in 0..MaxOffset,
          audioStartTime \in 0..MaxOffset, audioEndTime \in 0..MaxOffset :
             meta = ProgressWrites([DownloadRecord(1) EXCEPT
                                       !.startTime = startTime, !.endTime = endTime,
                                       !.audioStartTime = audioStartTime,
                                       !.audioEndTime = audioEndTime],
                                   << <<Key(1, "main"), 0>> >>)
    /\ dirExists = TRUE
    /\ files = NoFiles
    /\ segs = NoSegments
    /\ dls = (1 :> NewDownload)
    /\ mgs = EmptyMap
    /\ sps = EmptyMap
    /\ caps = EmptyMap
    /\ dss = EmptyMap
    /\ nextPid = 2
    /\ resp = [op |-> "download", code |-> 200, pid |-> 1, known |-> FALSE]
    /\ lastProg = meta.progress
    /\ lastStatus = meta.status

TrimNext ==
    \/ \E w \in DOMAIN dls, found \in BOOLEAN : DlFfmpeg(w, found)
    \/ \E w \in DOMAIN dls, job \in Jobs, code \in ExitCodes :
          DlClose(w, job, code, TRUE, ShortClip)

SpecTrim == TrimInit /\ [][TrimNext]_vars

\* C31, as stated: the end offset handed to the download of the video track is
\* audioEnd - audioStart + videoStart exactly when the request gives no end offset for the
\* video (0) and gives one for the audio (not 0); in every other case it is the end offset
\* the request gives for the video. (The worker looks at the audio end offset only: a
\* request that gives both has the video's own end offset replaced.)
C31_Original ==
    \A w \in DOMAIN dls :
       dls[w].pc = "jobs"
          => dls[w].videoEndTime =
                (IF meta.endTime = 0 /\ meta.audioEndTime # 0
                 THEN meta.audioEndTime - meta.audioStartTime + meta.startTime
                 ELSE meta.endTime)

\* C32, as stated: what a run of a stage writes under its own process id never decreases:
\* every value written for the key is at least the value written for it before (for the
\* merge: 0, then 25 once the duration is known, then the percentages of the encoding,
\* then 100). (The percentages of the encoding are written as the tool reports them, from
\* 0 upwards, so the first of them may be less than the 25 written before it.)
C32_Original ==
    [][\A k \in DOMAIN lastProg \cap DOMAIN lastProg' :
          k[2] = "main" => lastProg'[k] >= lastProg[k]]_vars

\* C33, as stated: the packing of a transcription into subtitle lines loses nothing: the
\* words of the lines, in the order of the lines, are the words of the transcription in
\* their order, also when the first word (or a caption that stands for a whole segment of
\* the transcription) has 20 characters or more. (A word that does not fit on a line that
\* has no word yet is put on no line.)
C33_Original ==
    LET RECURSIVE WordsOf(_)
        WordsOf(lines) == IF lines = <<>> THEN <<>>
                          ELSE Head(lines).words \o WordsOf(Tail(lines))
    IN  \A w \in DOMAIN caps :
           caps[w].pc = "burn"
              => WordsOf(caps[w].srt) = [k \in 1..Len(caps[w].captions) |-> caps[w].captions[k].text]

\* C34, as stated: once a segment has been started again while an earlier pipeline of it
\* is still running, the end of the earlier pipeline changes nothing: the step in which a
\* pipeline completes or fails leaves the entry of its segment as it was unless the
\* process id recorded on the entry is that of the pipeline, so the later pipeline finds
\* the entry in progress for as long as it runs. (The pipeline that ends looks the entry
\* up by its segment and writes the status without a look at the process id.)
C34_Original ==
    [][\A w \in DOMAIN caps :
          (CaptionActive(caps[w]) /\ ~CaptionActive(caps'[w]) /\ segs.exists /\ segs'.exists)
             => \A i \in 1..Len(segs.list) :
                   (/\ ~IsNull(segs.list[i])
                    /\ segs.list[i].id = caps[w].id
                    /\ segs.list[i].captioningProcessId # w
                    /\ Len(segs'.list) = Len(segs.list))
                      => segs'.list[i] = segs.list[i]
      ]_vars

(***************************************************************************)
(* The merge started again.  The project is one whose latest run failed    *)
(* (as in the retries above) and the merge is started up to MaxRestarts     *)
(* times, a start being accepted while an earlier merge still runs.  Only   *)
(* the merge handler and the merge workers take steps.                      *)
(***************************************************************************)
AgainNext ==
    \/ StartMerge(MaxRestarts)
    \/ \E w \in DOMAIN mgs, found \in BOOLEAN : MgFfmpeg(w, found)
    \/ \E w \in DOMAIN mgs : MgProbeStderr(w)
    \/ \E w \in DOMAIN mgs, code \in ExitCodes, parsed \in BOOLEAN : MgProbeClose(w, code, parsed)
    \/ \E w \in DOMAIN mgs, pct \in ToolPercents : MgProgress(w, pct)
    \/ \E w \in DOMAIN mgs, code \in ExitCodes, wrote \in BOOLEAN : MgClose(w, code, wrote)

SpecAgain == RetryInit /\ [][AgainNext]_vars

\* C35, as stated: when the merge is started twice before the first run has ended, the
\* record is that of the later start once both workers have ended, in whichever order
\* they end: the step in which the second of the two ends leaves the process id returned
\* by the later start as the merge's process id, and the end of the earlier run, coming
\* after the end of the later one, leaves the final status the later run has written.
\* (A run that completes writes its own process id and the status merged, and a run that
\* fails writes the status of the failure, whatever has been started since.)
C35_Original ==
    [][\A v \in DOMAIN mgs, w \in DOMAIN mgs :
          (/\ v < w /\ meta.exists
           /\ mgs'[v].pc = "done" /\ mgs'[w].pc = "done"
           /\ mgs[v].pc # "done" \/ mgs[w].pc # "done")
             => /\ meta'.mergeProcessId = w
                /\ (mgs[w].pc = "done" /\ meta.status \in {MERGED, MERGING_ERROR})
                      => meta'.status = meta.status
      ]_vars

\* C36, as stated: a download start that is accepted for a project that has a record
\* changes the status, the current stage, the download's process id and the progress entry
\* of the new process id, and nothing else: the entries the progress map had and the
\* fields that earlier runs have recorded are as before. (The handler writes a record of
\* its own in place of the one that was there.)
C36_Original ==
    [][(resp'.op = "download" /\ resp'.code = 200 /\ meta.exists)
          => /\ \A k \in DOMAIN meta.progress :
                   k \in DOMAIN meta'.progress /\ meta'.progress[k] = meta.progress[k]
             /\ \A f \in RecordFields \ {"status", "currentProcess", "downloadProcessId",
                                          "progress"} : meta'[f] = meta[f]
      ]_vars

\* C37, as stated: 100 is stored under the process id of a stage only when the stage has
\* succeeded: the entry of the split's process id is not 100 while the status is
\* segmenting or segmenting_error, and the entry of the merge's process id is not 100 while
\* the status is merging or merging_error. (The split stores 100 when its last segment is
\* written, before the duration is probed once more and the status is set.)
C37_Original ==
    LET entry(processId) == IF Key(processId, "main") \in DOMAIN meta.progress
                            THEN meta.progress[Key(processId, "main")] ELSE NoNum
    IN  meta.exists
           => /\ meta.status \in {SEGMENTING, SEGMENTING_ERROR}
                    => entry(meta.splitProcessId) # 100
              /\ meta.status \in {MERGING, MERGING_ERROR}
                    => entry(meta.mergeProcessId) # 100

\* C38, as stated: whenever the status of the project is segmented, the segment list
\* exists and has as many entries as the segment count on the record says, however split
\* runs, caption pipelines and delete-segments requests interleave.
C38_Original ==
    (meta.exists /\ meta.status = SEGMENTED)
       => segs.exists /\ Len(segs.list) = meta.segments

\* C39: no step of the captioning writes the status of the project: a caption request,
\* accepted or not, and every step of a caption pipeline (its progress updates, its
\* completion, its failure) leave the status on the record as it was, so the status is
\* never captioning, captioned or captioning_error, not even when every segment of the
\* project is completed.
C39_StatusUntouched ==
    /\ [][((\E given \in BOOLEAN, segmentNumber \in CaptionRequests :
                StartCaption(given, segmentNumber))
           \/ (\E w \in DOMAIN caps :
                  \/ \E found \in BOOLEAN : CpFfmpeg(w, found)
                  \/ \E code \in ExitCodes : CpExtractClose(w, code)
                  \/ \E progress \in CaptionPercents \cup {100} : CpProgress(w, progress)
                  \/ \E code \in ExitCodes, parsed \in BOOLEAN :
                        CpWhisperClose(w, code, parsed, <<>>)
                  \/ \E code \in ExitCodes, fileOk \in BOOLEAN : CpBurnClose(w, code, fileOk)
                  \/ \E subtitle \in {Null, "Ocean Pollution Crisis"} : CpOllama(w, subtitle)
                  \/ \E code \in ExitCodes, fileOk \in BOOLEAN, removed \in BOOLEAN :
                        CpTitleClose(w, code, fileOk, removed)))
             => /\ meta'.exists = meta.exists
                /\ meta'.status = meta.status]_vars
    /\ [](meta.status \notin {CAPTIONING, CAPTIONED, CAPTIONING_ERROR})

\* both segments of the project are completed and the status is still segmented
C39_Witness ==
    /\ meta.exists /\ meta.status = SEGMENTED /\ meta.segmentTitleColor
    /\ segs.exists /\ Len(segs.list) = 2
    /\ \A i \in 1..2 : segs.list[i].captioningStatus = COMPLETED
    /\ \A w \in DOMAIN caps : caps[w].pc = COMPLETED

\* C40, as stated: the status on the record is always one of the values of the
\* ProjectStatus enumeration, also after a delete-segments request. (Delete-segments
\* writes a status of its own.)
C40_Original ==
    meta.exists => meta.status \in ProjectStatus

====
